---- MODULE Spec2Model ----
(***************************************************************************)
(* Message-processing pipeline of the support bot:                         *)
(*   SecurityManager.process_input  (security.py)                          *)
(*   FaultReportSystem              (fault_reports.py)                     *)
(*   LocalModel                     (local_model.py)                       *)
(*   IntelligentRouter              (router.py)                            *)
(*   EscalationEngine               (escalation.py)                        *)
(*   ConversationMemory             (memory.py)                            *)
(*   MetricsEngine                  (metrics.py)                           *)
(*   SupportStarterBot.process_message (bot.py)                            *)
(*                                                                         *)
(* A message text is a sequence of words over the finite vocabulary Words. *)
(* Every regular expression of the source is restricted to that            *)
(* vocabulary: a pattern is a sequence of alternatives, an alternative     *)
(* [a, b] matches a text when a word of a occurs and, if b is not empty,   *)
(* a word of b occurs later (the source's "a.*b") or right after it (the   *)
(* source's "a b").  Alternatives and patterns that no text over the       *)
(* vocabulary can match are left out.                                      *)
(***************************************************************************)
EXTENDS Integers, Sequences, FiniteSets, TLC

VARIABLES
    now,              \* time.time() / datetime.now(), in seconds
    ticks,            \* number of clock advances so far
    requests,         \* RateLimiter.requests: identifier -> list of timestamps
    sessions,         \* ConversationMemory.sessions: session id -> ConversationSession
    pending_reports,  \* FaultReportSystem.pending_reports: session id -> FaultReport (heap index)
    reports,          \* every FaultReport object created so far (the heap)
    dispatched,       \* reports handed to _send_report_email, in call order
    metrics,          \* MetricsEngine.conversations: conversation id -> ConversationMetric
    last,             \* the operation performed last, its input and what it returned
    calls             \* the calls in flight: worker -> the call's position and locals

vars == <<now, ticks, requests, sessions, pending_reports, reports, dispatched, metrics, last, calls>>

(***************************************************************************)
(* Bounds of the model.                                                    *)
(***************************************************************************)
MaxTicks == 3         \* clock advances explored
MaxMsgs == 3          \* process_message calls explored in one behaviour
MaxChecks == 5        \* RateLimiter.check calls explored in one behaviour
MaxCalls == 3         \* EscalationEngine.should_escalate calls explored in one behaviour
MaxKeywords == 2      \* longest text given to EscalationEngine.should_escalate
MaxHistory == 6       \* longest conversation_history given to the router
MaxLen == 4           \* longest text given to the pure detectors
max_per_minute == 2   \* RateLimiter.max_per_minute as configured in the model
max_per_hour == 4     \* RateLimiter.max_per_hour as configured in the model

MinuteWindow == 60    \* security.py: minute_ago = now - 60
HourWindow == 3600    \* security.py: now - ts < 3600

Ids == {"s1", "s2"}
TickSteps == {30, 3570}

NoneVal == "None"
EmptyMap == [k \in {} |-> NoneVal]

(***************************************************************************)
(* Vocabulary and character-level facts about its words.                   *)
(***************************************************************************)
Words == {"hej", "akut", "vattenläcka", "ingen", "värme", "kranen", "droppar",
          "lgh", "5", "0701234567", "ignore", "instructions", "repeat",
          "konsumentverket", "vad", "kostar", "AKUT", "VATTENLÄCKA",
          "chef", "köpa", "information", "kaos", "advokat", "avtal",
          "faktureringsfel", "lediga", "pricing", "0709999999",
          "radiator", "alarm", "bugg", "refund", "cancel"}

\* str.lower() of one word
LowerWord(w) ==
    CASE w = "AKUT" -> "akut"
      [] w = "VATTENLÄCKA" -> "vattenläcka"
      [] OTHER -> w

\* str.lower() of a text
Lower(t) == [i \in 1..Len(t) |-> LowerWord(t[i])]

\* len(word)
WordLen(w) ==
    CASE w \in {"5"} -> 1
      [] w \in {"hej", "lgh", "vad"} -> 3
      [] w \in {"akut", "AKUT", "chef", "köpa", "kaos", "bugg"} -> 4
      [] w \in {"ingen", "värme", "avtal", "alarm"} -> 5
      [] w \in {"kranen", "ignore", "repeat", "kostar", "lediga", "refund", "cancel"} -> 6
      [] w \in {"droppar", "advokat", "pricing"} -> 7
      [] w \in {"radiator"} -> 8
      [] w \in {"0701234567", "0709999999"} -> 10
      [] w \in {"vattenläcka", "VATTENLÄCKA", "information"} -> 11
      [] w \in {"instructions"} -> 12
      [] w \in {"konsumentverket", "faktureringsfel"} -> 15
      [] OTHER -> 13    \* the separator "Tilläggsinfo:"

\* number of upper-case letters of a word
WordCaps(w) ==
    CASE w = "AKUT" -> 4
      [] w = "VATTENLÄCKA" -> 11
      [] OTHER -> 0

RECURSIVE SumOver(_, _)
SumOver(f, t) == IF t = <<>> THEN 0 ELSE f[Head(t)] + SumOver(f, Tail(t))

\* len(message): the words and one blank between two words
TextLen(t) ==
    IF t = <<>> THEN 0
    ELSE SumOver([w \in Words |-> WordLen(w)], t) + (Len(t) - 1)

\* sum(1 for c in message if c.isupper() and c.isalpha())
TextCaps(t) == SumOver([w \in Words |-> WordCaps(w)], t)

\* x is a (character-level) substring of the word y
SubStrWord(x, y) == x = y \/ (x = "5" /\ y = "0701234567")
\* x is a suffix / a prefix of the word y (no proper ones in the vocabulary)
SuffixWord(x, y) == x = y
PrefixWord(x, y) == x = y

\* Python's "m in d" for two texts
InText(m, d) ==
    \/ m = <<>>
    \/ /\ Len(m) = 1
       /\ \E i \in 1..Len(d) : SubStrWord(m[1], d[i])
    \/ /\ Len(m) > 1
       /\ \E i \in 0..(Len(d) - Len(m)) :
            /\ SuffixWord(m[1], d[i + 1])
            /\ PrefixWord(m[Len(m)], d[i + Len(m)])
            /\ \A k \in 2..(Len(m) - 1) : m[k] = d[i + k]

(***************************************************************************)
(* Pattern matching (re.search) on texts.                                  *)
(***************************************************************************)
Alt(a, b) == [a |-> a, b |-> b, adj |-> FALSE]   \* "a.*b", or "a" when b is empty
Adj(a, b) == [a |-> a, b |-> b, adj |-> TRUE]    \* "a b": b right after a
One(a) == <<Alt(a, {})>>

\* the alternative alt matches with its first word at position i
AltAt(alt, t, i) ==
    /\ i \in 1..Len(t)
    /\ t[i] \in alt.a
    /\ \/ alt.b = {}
       \/ ~alt.adj /\ \E j \in (i + 1)..Len(t) : t[j] \in alt.b
       \/ alt.adj /\ i + 1 <= Len(t) /\ t[i + 1] \in alt.b

\* re.search(p, t) finds a match
Matches(p, t) == \E k \in 1..Len(p) : \E i \in 1..Len(t) : AltAt(p[k], t, i)

\* any(re.search(p, t) for p in patterns), patterns tried in list order
RECURSIVE AnyMatch(_, _)
AnyMatch(patterns, t) ==
    IF patterns = <<>> THEN FALSE
    ELSE IF Matches(Head(patterns), t) THEN TRUE
    ELSE AnyMatch(Tail(patterns), t)

\* last position matched by the greedy alternative alt starting at i
AltEnd(alt, t, i) ==
    IF alt.b = {} THEN i
    ELSE IF alt.adj THEN i + 1
    ELSE CHOOSE j \in (i + 1)..Len(t) :
            /\ t[j] \in alt.b
            /\ \A j2 \in (j + 1)..Len(t) : t[j2] \notin alt.b

\* pattern.sub(marker, t): leftmost matches, not overlapping, replaced
RECURSIVE SubFrom(_, _, _, _)
SubFrom(p, marker, t, i) ==
    IF i > Len(t) THEN <<>>
    ELSE IF \E k \in 1..Len(p) : AltAt(p[k], t, i)
         THEN LET k == CHOOSE k1 \in 1..Len(p) :
                          /\ AltAt(p[k1], t, i)
                          /\ \A k2 \in 1..(k1 - 1) : ~AltAt(p[k2], t, i)
                  e == AltEnd(p[k], t, i)
              IN <<marker>> \o SubFrom(p, marker, t, e + 1)
         ELSE <<t[i]>> \o SubFrom(p, marker, t, i + 1)

Sub(p, marker, t) == SubFrom(p, marker, t, 1)

(***************************************************************************)
(* security.py                                                             *)
(***************************************************************************)
\* AntiPromptInjection.injection_patterns (compiled with re.IGNORECASE)
injection_patterns == <<
    <<Alt({"ignore"}, {"instructions"})>>   \* (ignore|forget|...).*(previous|...|instructions)
  >>

\* AntiPromptInjection.check: suspicious_indicators
suspicious_indicators == <<
    One({"repeat"})                         \* (?i)(repeat|copy|echo)
  >>

FilterMarker == "[FILTERED]"

\* AntiPromptInjection.check
check(message) ==
    IF AnyMatch(injection_patterns, message) THEN "BLOCKED"
    ELSE IF AnyMatch(suspicious_indicators, message) THEN "SUSPICIOUS"
    ELSE IF 10 * TextCaps(message) > 3 * TextLen(message) /\ TextLen(message) > 20
         THEN "SUSPICIOUS"
    ELSE "SAFE"

RECURSIVE SubAll(_, _)
SubAll(patterns, t) ==
    IF patterns = <<>> THEN t
    ELSE SubAll(Tail(patterns), Sub(Head(patterns), FilterMarker, t))

\* AntiPromptInjection.sanitize
sanitize(message) ==
    IF check(message) = "BLOCKED" THEN <<>>
    ELSE IF check(message) = "SUSPICIOUS" THEN SubAll(injection_patterns, message)
    ELSE message

WithinHour(ts, t) == t - ts < HourWindow
WithinMinute(ts, t) == ts > t - MinuteWindow

\* the timestamps of a list that fall in the last hour / the last minute
KeepHour(reqs, t) == SelectSeq(reqs, LAMBDA ts : WithinHour(ts, t))
RecentMinute(reqs, t) == SelectSeq(reqs, LAMBDA ts : WithinMinute(ts, t))

\* RateLimiter.check, as a function of the identifier's list and the time:
\* the verdict and the list it leaves behind
RateLimiter_check_off_by_one(reqs, t) ==
    LET request_times == KeepHour(reqs, t)
    IN IF Len(RecentMinute(request_times, t)) > max_per_minute
       THEN [allowed |-> FALSE, reason |-> "minute", requests |-> request_times]
       ELSE IF Len(request_times) >= max_per_hour
       THEN [allowed |-> FALSE, reason |-> "hour", requests |-> request_times]
       ELSE [allowed |-> TRUE, reason |-> NoneVal, requests |-> Append(request_times, t)]

RateLimiter_check(reqs, t) ==
    LET request_times == KeepHour(reqs, t)
    IN IF Len(RecentMinute(request_times, t)) >= max_per_minute
       THEN [allowed |-> FALSE, reason |-> "minute", requests |-> request_times]
       ELSE IF Len(request_times) >= max_per_hour
       THEN [allowed |-> FALSE, reason |-> "hour", requests |-> request_times]
       ELSE [allowed |-> TRUE, reason |-> NoneVal, requests |-> Append(request_times, t)]

\* SecurityManager.process_input, given the rate limiter's verdict
process_input_pass_blocked(message, rate_allowed) ==
    IF ~rate_allowed THEN [allowed |-> FALSE, sanitized |-> <<>>, reason |-> "rate"]
    ELSE [allowed |-> TRUE, sanitized |-> sanitize(message), reason |-> NoneVal]

process_input(message, rate_allowed) ==
    IF ~rate_allowed THEN [allowed |-> FALSE, sanitized |-> <<>>, reason |-> "rate"]
    ELSE IF check(message) = "BLOCKED"
         THEN [allowed |-> FALSE, sanitized |-> <<>>, reason |-> "blocked"]
    ELSE [allowed |-> TRUE, sanitized |-> sanitize(message), reason |-> NoneVal]

(***************************************************************************)
(* fault_reports.py                                                        *)
(***************************************************************************)
UrgencyLevels == {"low", "medium", "high", "critical"}

\* detect_urgency: critical_patterns
critical_patterns == <<
    \* (akut|stort|forsar|strömmar).*vattenläcka | vattenläcka.*(akut|...)
    <<Alt({"akut"}, {"vattenläcka"}), Alt({"vattenläcka"}, {"akut"})>>
  >>

\* detect_urgency: high_patterns
high_patterns == <<
    \* ingen.*värme | ... | värme.*ej  ("hej" ends in "ej")
    <<Alt({"ingen"}, {"värme"}), Alt({"värme"}, {"hej"})>>
  >>

\* detect_urgency: medium_patterns
medium_patterns == <<
    One({"droppar"})                        \* \b(droppar|läcker|kran|...)\b
  >>

\* FaultReportSystem.detect_urgency
detect_urgency_medium_first(text) ==
    LET text_lower == Lower(text)
    IN IF AnyMatch(medium_patterns, text_lower) THEN "medium"
       ELSE IF AnyMatch(high_patterns, text_lower) THEN "high"
       ELSE IF AnyMatch(critical_patterns, text_lower) THEN "critical"
       ELSE "low"

detect_urgency(text) ==
    LET text_lower == Lower(text)
    IN IF AnyMatch(critical_patterns, text_lower) THEN "critical"
       ELSE IF AnyMatch(high_patterns, text_lower) THEN "high"
       ELSE IF AnyMatch(medium_patterns, text_lower) THEN "medium"
       ELSE "low"

\* FaultReportSystem.category_patterns, in declaration order
\* (each category has a Swedish and an English pattern; One({}) is a pattern
\* that no word of the vocabulary matches)
category_patterns == <<
    [category |-> "water",
     patterns |-> << One({"vattenläcka", "kranen", "droppar"}),              \* (vatten|...|kran|...|droppar)
                     One({}) >>],
    [category |-> "electrical", patterns |-> << One({}), One({}) >>],
    [category |-> "heating",
     patterns |-> << <<Alt({"radiator"}, {}), Alt({"ingen"}, {"värme"})>>,   \* (...|radiator|...|ingen.*värme)
                     One({"radiator"}) >>],                                  \* (heating|radiator|...)
    [category |-> "security",
     patterns |-> << One({"alarm"}),                                         \* (...|larm)
                     One({"alarm"}) >>],                                     \* (...|alarm)
    [category |-> "structural", patterns |-> << One({}), One({}) >>],
    [category |-> "appliance", patterns |-> << One({}), One({}) >>],
    [category |-> "noise", patterns |-> << One({}), One({}) >>]
  >>

\* number of patterns of the list that match
RECURSIVE CountMatches(_, _)
CountMatches(patterns, t) ==
    IF patterns = <<>> THEN 0
    ELSE (IF Matches(Head(patterns), t) THEN 1 ELSE 0) + CountMatches(Tail(patterns), t)

\* detect_category, were it to return the first category that any pattern
\* matches
detect_category_first_match(text) ==
    LET text_lower == Lower(text)
        scored == {k \in 1..Len(category_patterns) :
                      CountMatches(category_patterns[k].patterns, text_lower) > 0}
    IN IF scored = {} THEN "other"
       ELSE category_patterns[CHOOSE k \in scored : \A k2 \in scored : k <= k2].category

\* FaultReportSystem.detect_category: max(scores, key=scores.get) is the
\* first category, in declaration order, that has the highest score
detect_category(text) ==
    LET text_lower == Lower(text)
        score(k) == CountMatches(category_patterns[k].patterns, text_lower)
        scored == {k \in 1..Len(category_patterns) : score(k) > 0}
    IN IF scored = {} THEN "other"
       ELSE LET best == CHOOSE k \in scored :
                            /\ \A k2 \in scored : score(k2) <= score(k)
                            /\ \A k2 \in scored : k2 < k => score(k2) < score(k)
            IN category_patterns[best].category

\* FaultReportSystem.get_response_for_urgency: the template chosen
get_response_for_urgency(urgency, category) ==
    CASE urgency = "critical" ->
            (IF category = "water" THEN "fault_water_critical"
             ELSE IF category = "security" THEN "fault_lockout"
             ELSE "fault_general_critical")
      [] urgency = "high" ->
            (IF category = "water" THEN "fault_water_high"
             ELSE IF category = "heating" THEN "fault_heating_high"
             ELSE IF category = "electrical" THEN "fault_electric_high"
             ELSE "fault_general_high")
      [] urgency = "medium" ->
            (IF category = "water" THEN "fault_water_medium"
             ELSE IF category = "appliance" THEN "fault_appliance_medium"
             ELSE IF category = "noise" THEN "fault_noise_medium"
             ELSE "fault_general_medium")
      [] OTHER -> "fault_general_low"

\* words matched by the e-mail and the phone expressions of
\* _extract_info_from_message
EmailWords == {}
PhoneWords == {"0701234567", "0709999999"}
\* words made of [A-Za-z0-9] only: what may follow "lgh" in a location
AsciiWords == {"hej", "akut", "ingen", "kranen", "droppar", "lgh", "5", "0701234567",
               "ignore", "instructions", "repeat", "konsumentverket", "vad", "kostar", "AKUT",
               "chef", "information", "kaos", "advokat", "avtal", "faktureringsfel", "lediga",
               "pricing", "0709999999", "radiator", "alarm", "bugg", "refund", "cancel"}

\* the first word of the text that lies in the set, or None
FirstWordIn(t, S) ==
    IF \E i \in 1..Len(t) : t[i] \in S
    THEN t[CHOOSE i \in 1..Len(t) : t[i] \in S /\ \A j \in 1..(i - 1) : t[j] \notin S]
    ELSE NoneVal

\* position of the first "lgh <word>" of the text, 0 if there is none
LocationAt(t) ==
    LET ok(i) == i < Len(t) /\ t[i] = "lgh" /\ t[i + 1] \in AsciiWords
    IN IF \E i \in 1..Len(t) : ok(i)
       THEN CHOOSE i \in 1..Len(t) : ok(i) /\ \A j \in 1..(i - 1) : ~ok(j)
       ELSE 0

\* FaultReportSystem._extract_info_from_message; a key that the source
\* leaves out of the dictionary is None here (location: the empty text)
extract_info(message) ==
    [email |-> FirstWordIn(message, EmailWords),
     phone |-> FirstWordIn(message, PhoneWords),
     location |-> IF LocationAt(message) = 0 THEN <<>>
                  ELSE SubSeq(message, LocationAt(message), LocationAt(message) + 1)]

\* dataclass FaultReport: the constructor call of collect_fault_report,
\* status takes its default
FaultReport_default_sent(report_id, session_id, category, urgency, description, location, reporter_name, reporter_email, reporter_phone) ==
    [report_id |-> report_id, session_id |-> session_id, category |-> category,
     urgency |-> urgency, description |-> description, location |-> location,
     reporter_name |-> reporter_name, reporter_email |-> reporter_email,
     reporter_phone |-> reporter_phone, status |-> "sent"]

FaultReport(report_id, session_id, category, urgency, description, location, reporter_name, reporter_email, reporter_phone) ==
    [report_id |-> report_id, session_id |-> session_id, category |-> category,
     urgency |-> urgency, description |-> description, location |-> location,
     reporter_name |-> reporter_name, reporter_email |-> reporter_email,
     reporter_phone |-> reporter_phone, status |-> "collecting"]

\* FaultReport.is_complete
is_complete(report) ==
    /\ report.description # <<>>
    /\ report.location # <<>>
    /\ (report.reporter_email # NoneVal \/ report.reporter_phone # NoneVal)

\* FaultReportSystem.should_escalate_immediately
should_escalate_immediately(urgency) == urgency \in {"critical", "high"}

\* FaultReportSystem.get_collection_questions
get_collection_questions(report) ==
    (IF report.location = <<>> THEN <<"ask_location">> ELSE <<>>)
    \o (IF report.reporter_email = NoneVal /\ report.reporter_phone = NoneVal
        THEN <<"ask_contact">> ELSE <<>>)

\* "a or b" of two optional values
OrElse(a, b) == IF a # NoneVal THEN a ELSE b

Separator == "Tilläggsinfo:"

\* the merge, were an extracted value to replace the one the report holds
merge_into_report_overwriting(report, message) ==
    LET extracted == extract_info(message)
        r1 == IF extracted.location # <<>>
              THEN [report EXCEPT !.location = extracted.location] ELSE report
        r2 == IF extracted.email # NoneVal
              THEN [r1 EXCEPT !.reporter_email = extracted.email] ELSE r1
        r3 == IF extracted.phone # NoneVal
              THEN [r2 EXCEPT !.reporter_phone = extracted.phone] ELSE r2
    IN IF ~InText(Lower(message), Lower(r3.description))
       THEN (IF r3.description # <<>>
             THEN [r3 EXCEPT !.description = r3.description \o <<Separator>> \o message]
             ELSE [r3 EXCEPT !.description = message])
       ELSE r3

\* collect_fault_report, pending branch: the open report after the merge
\* of the extracted fields and the appended description
merge_into_report(report, message) ==
    LET extracted == extract_info(message)
        r1 == IF extracted.location # <<>> /\ report.location = <<>>
              THEN [report EXCEPT !.location = extracted.location] ELSE report
        r2 == IF extracted.email # NoneVal /\ r1.reporter_email = NoneVal
              THEN [r1 EXCEPT !.reporter_email = extracted.email] ELSE r1
        r3 == IF extracted.phone # NoneVal /\ r2.reporter_phone = NoneVal
              THEN [r2 EXCEPT !.reporter_phone = extracted.phone] ELSE r2
    IN IF ~InText(Lower(message), Lower(r3.description))
       THEN (IF r3.description # <<>>
             THEN [r3 EXCEPT !.description = r3.description \o <<Separator>> \o message]
             ELSE [r3 EXCEPT !.description = message])
       ELSE r3

Put(f, k, v) == [x \in (DOMAIN f) \cup {k} |-> IF x = k THEN v ELSE f[x]]
\* "del d[k]", were it to leave the entry in place
Del_keeping(f, k) == f
Del(f, k) == [x \in (DOMAIN f) \ {k} |-> f[x]]

has_pending_never(pending, session_id) == FALSE

\* collect_fault_report: "session_id in self.pending_reports"
has_pending(pending, session_id) == session_id \in DOMAIN pending

\* FaultReportSystem.collect_fault_report: the system's state after the
\* call (pending_reports, the report objects, the dispatches) and the
\* dictionary it returns; `report` is the returned report's heap index
collect_fault_report(pending, heap, disp, message, session_data, t) ==
    LET session_id == session_data.session_id
    IN IF has_pending(pending, session_id)
       THEN LET idx == pending[session_id]
                report == merge_into_report(heap[idx], message)
            IN IF is_complete(report)
               THEN [pending |-> Del(pending, session_id),
                     heap |-> [heap EXCEPT ![idx] = [report EXCEPT !.status = "complete"]],
                     disp |-> Append(disp, idx),
                     result |-> [report |-> idx,
                                 response |-> "info_collected",
                                 questions |-> <<>>,
                                 escalate_immediately |-> should_escalate_immediately(report.urgency),
                                 collect_more_info |-> FALSE,
                                 is_new_report |-> FALSE,
                                 is_complete |-> TRUE]]
               ELSE [pending |-> pending,
                     heap |-> [heap EXCEPT ![idx] = report],
                     disp |-> disp,
                     result |-> [report |-> idx,
                                 response |-> "waiting_for_info",
                                 questions |-> get_collection_questions(report),
                                 escalate_immediately |-> FALSE,
                                 collect_more_info |-> TRUE,
                                 is_new_report |-> FALSE,
                                 is_complete |-> FALSE]]
       ELSE LET urgency == detect_urgency(message)
                category == detect_category(message)
                response == get_response_for_urgency(urgency, category)
                extracted == extract_info(message)
                report == FaultReport(t, session_id, category, urgency, message,
                                      extracted.location,
                                      session_data.customer_name,
                                      OrElse(session_data.customer_email, extracted.email),
                                      OrElse(session_data.customer_phone, extracted.phone))
                idx == Len(heap) + 1
            IN IF is_complete(report)
               THEN [pending |-> pending,
                     heap |-> Append(heap, [report EXCEPT !.status = "complete"]),
                     disp |-> Append(disp, idx),
                     result |-> [report |-> idx,
                                 response |-> "info_collected",
                                 questions |-> <<>>,
                                 escalate_immediately |-> should_escalate_immediately(urgency),
                                 collect_more_info |-> FALSE,
                                 is_new_report |-> TRUE,
                                 is_complete |-> TRUE]]
               ELSE [pending |-> Put(pending, session_id, idx),
                     heap |-> Append(heap, report),
                     disp |-> disp,
                     result |-> [report |-> idx,
                                 response |-> response,
                                 questions |-> get_collection_questions(report),
                                 escalate_immediately |-> should_escalate_immediately(urgency),
                                 collect_more_info |-> TRUE,
                                 is_new_report |-> TRUE,
                                 is_complete |-> FALSE]]

\* collect_fault_report from line 256 on, for a call that evaluated the test
\* "session_id in self.pending_reports" (saw_pending) and fetched the pending
\* report (heap index idx0) at an earlier moment: the pending branch merges
\* into the report object it holds and "del self.pending_reports[session_id]"
\* raises KeyError when the entry is gone; the new-report branch stores its
\* report over whatever entry is there
collect_fault_report_resumed(saw_pending, idx0, pending, heap, disp, message, session_data, t) ==
    LET session_id == session_data.session_id
    IN IF saw_pending
       THEN LET report == merge_into_report(heap[idx0], message)
            IN IF is_complete(report)
               THEN [raised |-> session_id \notin DOMAIN pending,
                     pending |-> Del(pending, session_id),
                     heap |-> [heap EXCEPT ![idx0] = [report EXCEPT !.status = "complete"]],
                     disp |-> IF session_id \in DOMAIN pending THEN Append(disp, idx0)
                              ELSE disp,
                     result |-> [report |-> idx0,
                                 response |-> "info_collected",
                                 questions |-> <<>>,
                                 escalate_immediately |-> should_escalate_immediately(report.urgency),
                                 collect_more_info |-> FALSE,
                                 is_new_report |-> FALSE,
                                 is_complete |-> TRUE]]
               ELSE [raised |-> FALSE,
                     pending |-> pending,
                     heap |-> [heap EXCEPT ![idx0] = report],
                     disp |-> disp,
                     result |-> [report |-> idx0,
                                 response |-> "waiting_for_info",
                                 questions |-> get_collection_questions(report),
                                 escalate_immediately |-> FALSE,
                                 collect_more_info |-> TRUE,
                                 is_new_report |-> FALSE,
                                 is_complete |-> FALSE]]
       ELSE LET fresh == collect_fault_report(EmptyMap, heap, disp, message, session_data, t)
            IN [raised |-> FALSE,
                pending |-> IF fresh.result.is_complete THEN pending
                            ELSE Put(pending, session_id, fresh.result.report),
                heap |-> fresh.heap,
                disp |-> fresh.disp,
                result |-> fresh.result]

(***************************************************************************)
(* local_model.py                                                          *)
(***************************************************************************)
\* LocalModel.patterns, in declaration order
local_patterns == <<
    [pattern |-> One({"hej"}), intent |-> "greeting", lead_score |-> 1],
    [pattern |-> <<Alt({"vattenläcka"}, {"akut"})>>, intent |-> "water_critical", lead_score |-> 2],
    [pattern |-> One({"droppar"}), intent |-> "water_question", lead_score |-> 2],
    [pattern |-> <<Adj({"ingen"}, {"värme"})>>, intent |-> "heating_issue", lead_score |-> 2],
    [pattern |-> One({"kostar", "pricing"}), intent |-> "pricing_question", lead_score |-> 3],
    [pattern |-> One({"lediga"}), intent |-> "availability", lead_score |-> 4],
    [pattern |-> One({"chef"}), intent |-> "escalation_demand", lead_score |-> 1],
    [pattern |-> One({"värme"}), intent |-> "seasonal", lead_score |-> 2]
  >>

can_handle_without_greeting(message) ==
    LET message_lower == Lower(message)
    IN \E k \in 2..Len(local_patterns) : Matches(local_patterns[k].pattern, message_lower)

\* LocalModel.can_handle
can_handle(message) ==
    LET message_lower == Lower(message)
    IN \E k \in 1..Len(local_patterns) : Matches(local_patterns[k].pattern, message_lower)

\* LocalModel.generate, for a message that can_handle accepts
local_generate(message) ==
    LET message_lower == Lower(message)
        hit(k) == Matches(local_patterns[k].pattern, message_lower)
        k == CHOOSE k1 \in 1..Len(local_patterns) :
                 hit(k1) /\ \A k2 \in 1..(k1 - 1) : ~hit(k2)
    IN [response |-> <<"(canned)">>,
        intent |-> local_patterns[k].intent,
        confidence |-> 85,
        lead_score |-> local_patterns[k].lead_score,
        escalate |-> local_patterns[k].intent \in {"complaint", "escalation_demand"}]

(***************************************************************************)
(* router.py                                                               *)
(***************************************************************************)
\* class IntentType: the closed set of intents of the router
IntentType == {"pricing_question", "how_it_works", "booking_request", "technical_issue",
               "refund_request", "complaint", "feature_request", "integration_question",
               "general_inquiry", "escalation_demand", "legal_threat", "unknown"}

\* IntelligentRouter._load_intent_patterns, in declaration order
intent_patterns == <<
    [intent |-> "pricing_question", patterns |-> << One({"kostar"}), One({"pricing"}) >>,
     weight |-> 10],
    [intent |-> "how_it_works", patterns |-> << >>, weight |-> 10],
    [intent |-> "booking_request", patterns |-> << >>, weight |-> 10],
    [intent |-> "technical_issue", patterns |-> << One({"bugg"}) >>, weight |-> 10],
    [intent |-> "refund_request", patterns |-> << One({"refund"}), One({"cancel"}) >>,
     weight |-> 10],
    [intent |-> "complaint", patterns |-> << >>, weight |-> 10],
    [intent |-> "feature_request", patterns |-> << >>, weight |-> 10],
    [intent |-> "integration_question", patterns |-> << >>, weight |-> 10],
    [intent |-> "escalation_demand", patterns |-> << >>, weight |-> 10],
    [intent |-> "legal_threat", patterns |-> << >>, weight |-> 10]
  >>

Min(a, b) == IF a <= b THEN a ELSE b
Max(a, b) == IF a >= b THEN a ELSE b

\* _detect_intent, were max to keep the last of several intents with the
\* highest score
detect_intent_last_best(message) ==
    LET score(k) == intent_patterns[k].weight * CountMatches(intent_patterns[k].patterns, message)
        scored == {k \in 1..Len(intent_patterns) : score(k) > 0}
    IN IF scored = {} THEN [intent |-> "general_inquiry", confidence |-> 30]
       ELSE LET best == CHOOSE k \in scored :
                            /\ \A k2 \in scored : score(k2) <= score(k)
                            /\ \A k2 \in scored : k2 > k => score(k2) < score(k)
            IN [intent |-> intent_patterns[best].intent,
                confidence |-> Min(score(best) * 5, 100)]

\* IntelligentRouter._detect_intent; weights and confidence in tenths / hundredths
detect_intent(message) ==
    LET score(k) == intent_patterns[k].weight * CountMatches(intent_patterns[k].patterns, message)
        scored == {k \in 1..Len(intent_patterns) : score(k) > 0}
    IN IF scored = {} THEN [intent |-> "general_inquiry", confidence |-> 30]
       ELSE LET best == CHOOSE k \in scored :
                            /\ \A k2 \in scored : score(k2) <= score(k)
                            /\ \A k2 \in scored : k2 < k => score(k2) < score(k)
            IN [intent |-> intent_patterns[best].intent,
                confidence |-> Min(score(best) * 5, 100)]

\* IntelligentRouter._load_sentiment_patterns and the negative words
angry_patterns == << >>
frustrated_patterns == << One({"kaos"}) >>                 \* \bkaos\b
positive_patterns == << >>
negative_words == << >>

\* IntelligentRouter._detect_sentiment
detect_sentiment(message) ==
    IF AnyMatch(angry_patterns, message) THEN "angry"
    ELSE IF AnyMatch(frustrated_patterns, message) THEN "frustrated"
    ELSE IF AnyMatch(positive_patterns, message) THEN "positive"
    ELSE IF AnyMatch(negative_words, message) THEN "slightly_negative"
    ELSE "neutral"

\* IntelligentRouter._load_lead_triggers: level -> patterns
lead_triggers == <<
    << <<Alt({"vad"}, {"kostar"})>>,        \* 1: \bvad.*kostar\b
       One({"pricing"}),                    \*    \bpricing\b
       One({"information"}) >>,             \*    \binformation\b
    << >>,                                  \* 2
    << >>,                                  \* 3
    << >>,                                  \* 4
    << One({"köpa"}) >>                     \* 5: \bköp(a)?\b
  >>

company_indicators == << >>

RECURSIVE TriggerScore(_, _, _)
TriggerScore(level, message, score) ==
    IF level > Len(lead_triggers) THEN score
    ELSE TriggerScore(level + 1, message,
                      IF AnyMatch(lead_triggers[level], message) THEN Max(score, level) ELSE score)

\* the conversation_history argument: None, or a list whose items are
\* {role, content} dicts, as process_message declares it, or plain strings,
\* as the router reads them
NoHistory == [is_none |-> TRUE, items |-> <<>>]
ListHistory(items) == [is_none |-> FALSE, items |-> items]
StrItem(text) == [str |-> text]
IsDict(m) == "role" \in DOMAIN m

\* history[-k:]
LastItems(items, k) == SubSeq(items, Max(1, Len(items) - k + 1), Len(items))

\* the patterns _calculate_lead_score searches in m.lower() of a history item
PricingMention(m) ==
    \E i \in 1..Len(m.str) : LowerWord(m.str[i]) \in {"pris", "price", "pricing"}
BookingMention(m) ==
    \E i \in 1..Len(m.str) : LowerWord(m.str[i]) \in {"boka", "book"}

\* IntelligentRouter._calculate_lead_score: the score starts at 0; with a
\* non-empty history, m.lower() is called on each of its last five items,
\* which raises AttributeError on a dict; two or more pricing mentions among
\* them lift the score to 3, a booking mention among the last three to 4
calculate_lead_score(message, history) ==
    LET s0 == TriggerScore(1, message, 0)
        truthy == ~history.is_none /\ Len(history.items) > 0
        last5 == LastItems(history.items, 5)
        last3 == LastItems(history.items, 3)
        raises == truthy /\ \E k \in 1..Len(last5) : IsDict(last5[k])
        pricing_mentions == Cardinality({k \in 1..Len(last5) : PricingMention(last5[k])})
        s1 == IF truthy /\ pricing_mentions >= 2 THEN Max(s0, 3) ELSE s0
        s2 == IF truthy /\ \E k \in 1..Len(last3) : BookingMention(last3[k])
              THEN Max(s1, 4) ELSE s1
        s3 == IF AnyMatch(company_indicators, message) THEN Max(s2, 3) ELSE s2
    IN IF raises THEN [raised |-> TRUE, score |-> s0]
       ELSE [raised |-> FALSE, score |-> Min(s3, 5)]

\* IntelligentRouter._should_escalate
router_should_escalate(intent, sentiment, lead_score) ==
    \/ intent \in {"legal_threat", "escalation_demand"}
    \/ sentiment = "angry"
    \/ (sentiment = "frustrated" /\ lead_score <= 2)

\* IntelligentRouter.classify
classify(message, history) ==
    LET message_lower == Lower(message)
        di == detect_intent(message_lower)
        sentiment == detect_sentiment(message_lower)
        ls == calculate_lead_score(message_lower, history)
    IN [raised |-> ls.raised,
        intent |-> di.intent, confidence |-> di.confidence, sentiment |-> sentiment,
        lead_score |-> ls.score,
        should_escalate |-> router_should_escalate(di.intent, sentiment, ls.score)]

(***************************************************************************)
(* escalation.py                                                           *)
(***************************************************************************)
\* EscalationEngine._load_triggers, default configuration; a keyword is
\* found by "word in message.lower()"
max_conversation_turns == 8
sentiment_escalation == {"angry", "frustrated"}
legal_keywords == {"konsumentverket", "advokat"}
manager_keywords == {"chef"}
billing_keywords == {"faktureringsfel"}
contract_keywords == {"avtal"}

HasKeyword(message, keywords) == \E i \in 1..Len(message) : LowerWord(message[i]) \in keywords

should_escalate_sentiment_first(intent, sentiment, lead_score, conversation_turns, message) ==
    IF sentiment \in sentiment_escalation THEN "angry_customer"
    ELSE IF HasKeyword(message, legal_keywords) THEN "legal_threat"
    ELSE IF HasKeyword(message, manager_keywords) THEN "manager_request"
    ELSE IF intent = "technical_issue" /\ conversation_turns > 3 THEN "technical_issue"
    ELSE IF intent = "refund_request" /\ sentiment \in {"frustrated", "angry"} THEN "refund_dispute"
    ELSE IF conversation_turns > max_conversation_turns THEN "complex_case"
    ELSE IF HasKeyword(message, billing_keywords) THEN "billing_error"
    ELSE IF HasKeyword(message, contract_keywords) THEN "contractual"
    ELSE NoneVal

\* should_escalate without the rule on the number of turns
should_escalate_no_turn_limit(intent, sentiment, lead_score, conversation_turns, message) ==
    IF HasKeyword(message, legal_keywords) THEN "legal_threat"
    ELSE IF sentiment \in sentiment_escalation THEN "angry_customer"
    ELSE IF HasKeyword(message, manager_keywords) THEN "manager_request"
    ELSE IF intent = "technical_issue" /\ conversation_turns > 3 THEN "technical_issue"
    ELSE IF intent = "refund_request" /\ sentiment \in {"frustrated", "angry"} THEN "refund_dispute"
    ELSE IF HasKeyword(message, billing_keywords) THEN "billing_error"
    ELSE IF HasKeyword(message, contract_keywords) THEN "contractual"
    ELSE NoneVal

\* EscalationEngine.should_escalate: the reason, or None
should_escalate(intent, sentiment, lead_score, conversation_turns, message) ==
    IF HasKeyword(message, legal_keywords) THEN "legal_threat"
    ELSE IF sentiment \in sentiment_escalation THEN "angry_customer"
    ELSE IF HasKeyword(message, manager_keywords) THEN "manager_request"
    ELSE IF intent = "technical_issue" /\ conversation_turns > 3 THEN "technical_issue"
    ELSE IF intent = "refund_request" /\ sentiment \in {"frustrated", "angry"} THEN "refund_dispute"
    ELSE IF conversation_turns > max_conversation_turns THEN "complex_case"
    ELSE IF HasKeyword(message, billing_keywords) THEN "billing_error"
    ELSE IF HasKeyword(message, contract_keywords) THEN "contractual"
    ELSE NoneVal

\* EscalationEngine._load_rules, default rules: the priority
\* create_escalation_packet reads for the reason; None without a reason
rule_priority(reason) ==
    CASE reason = "legal_threat" -> "critical"
      [] reason = "angry_customer" -> "high"
      [] reason = "technical_issue" -> "medium"
      [] reason = "refund_dispute" -> "high"
      [] reason = "manager_request" -> "high"
      [] reason = "complex_case" -> "medium"
      [] reason = "billing_error" -> "high"
      [] reason = "contractual" -> "high"
      [] reason = NoneVal -> NoneVal

(***************************************************************************)
(* memory.py                                                               *)
(***************************************************************************)
\* ConversationSession as get_or_create_session constructs it
NewSession(session_id, t) ==
    [session_id |-> session_id, started_at |-> t, last_activity |-> t,
     messages |-> <<>>, memory |-> [k \in {} |-> NoneVal],
     current_intent |-> NoneVal, current_sentiment |-> NoneVal, lead_score |-> 1]

\* ConversationMemory.get_or_create_session: the sessions afterwards
get_or_create_session(sess, session_id, t) ==
    IF session_id \in DOMAIN sess THEN sess ELSE Put(sess, session_id, NewSession(session_id, t))

\* session.memory.get(key, {}).get("value")
MemoryValue(session, key) ==
    IF key \in DOMAIN session.memory THEN session.memory[key] ELSE NoneVal

\* words after a leading greeting that INFO_PATTERNS["name"] takes for a name
NameStartWords == Words \ {"värme", "köpa", "5", "0701234567", "0709999999"}
MemoryPhoneWords == {"0701234567", "0709999999"}

\* the last word of the text that lies in the set, or None
LastWordIn(t, S) ==
    IF \E i \in 1..Len(t) : t[i] \in S
    THEN t[CHOOSE i \in 1..Len(t) : t[i] \in S /\ \A j \in (i + 1)..Len(t) : t[j] \notin S]
    ELSE NoneVal

\* extract_info_from_message followed by extract_and_store_info for every
\* pair found: update_memory overwrites, so the last value found stays
store_extracted_info(session, message) ==
    LET name == IF Len(message) >= 2 /\ LowerWord(message[1]) = "hej" /\ message[2] \in NameStartWords
                THEN message[1] ELSE NoneVal
        phone == LastWordIn(message, MemoryPhoneWords)
        m1 == IF name # NoneVal THEN Put(session.memory, "customer_name", name) ELSE session.memory
        m2 == IF phone # NoneVal THEN Put(m1, "customer_phone", phone) ELSE m1
    IN [session EXCEPT !.memory = m2]

add_user_message_overwrite(session, content, intent, sentiment, lead_score, t) ==
    [session EXCEPT
        !.current_intent = intent,
        !.current_sentiment = sentiment,
        !.lead_score = lead_score,
        !.messages = Append(session.messages,
                            [role |-> "user", content |-> content,
                             metadata |-> [intent |-> intent, sentiment |-> sentiment,
                                           lead_score |-> lead_score]]),
        !.last_activity = t]

\* ConversationMemory.add_message for the user's message
add_user_message(session, content, intent, sentiment, lead_score, t) ==
    [session EXCEPT
        !.current_intent = intent,
        !.current_sentiment = sentiment,
        !.lead_score = Max(session.lead_score, lead_score),
        !.messages = Append(session.messages,
                            [role |-> "user", content |-> content,
                             metadata |-> [intent |-> intent, sentiment |-> sentiment,
                                           lead_score |-> lead_score]]),
        !.last_activity = t]

\* add_message for the bot's reply, were it to store nothing
add_bot_message_dropped(session, content, t) == session

\* ConversationMemory.add_message for the bot's reply
add_bot_message(session, content, t) ==
    [session EXCEPT
        !.messages = Append(session.messages,
                            [role |-> "bot", content |-> content,
                             metadata |-> [k \in {} |-> NoneVal]]),
        !.last_activity = t]

\* ConversationMemory.session_timeout, in seconds (60 minutes)
session_timeout == 3600

\* the ids of the sessions that cleanup_old_sessions removes at time t
timed_out(sess, t) == {id \in DOMAIN sess : t - sess[id].last_activity > session_timeout}

\* ConversationMemory.cleanup_old_sessions: the sessions afterwards
cleanup_old_sessions(sess, t) == [id \in (DOMAIN sess) \ timed_out(sess, t) |-> sess[id]]

(***************************************************************************)
(* metrics.py                                                              *)
(***************************************************************************)
\* MetricsEngine.track_conversation_start
NewMetric ==
    [total_messages |-> 0, user_messages |-> 0, bot_messages |-> 0,
     lead_scores |-> <<>>, escalated |-> FALSE, escalated_reason |-> NoneVal,
     converted |-> FALSE]

\* MetricsEngine.track_message
track_message(metric, role, lead_score, has_lead) ==
    [metric EXCEPT
        !.total_messages = @ + 1,
        !.user_messages = IF role = "user" THEN @ + 1 ELSE @,
        !.bot_messages = IF role = "bot" THEN @ + 1 ELSE @,
        !.lead_scores = IF has_lead THEN Append(@, lead_score) ELSE @]

\* MetricsEngine.track_escalation
track_escalation(metric, reason) ==
    [metric EXCEPT !.escalated = TRUE, !.escalated_reason = reason]

\* MetricsEngine.track_conversion
track_conversion(metric) == [metric EXCEPT !.converted = TRUE]

(***************************************************************************)
(* schemas.py, bot.py                                                      *)
(***************************************************************************)
\* schemas.create_response
create_response(reply, intent, confidence, sentiment, lead_score, escalate, action) ==
    [reply |-> reply, action |-> action, intent |-> intent, confidence |-> confidence,
     sentiment |-> sentiment, lead_score |-> lead_score, escalate |-> escalate,
     requires_followup |-> lead_score >= 3,
     conversion_ready |-> lead_score >= 4 /\ sentiment \notin {"angry", "frustrated"},
     urgency |-> IF escalate \/ sentiment = "angry" THEN "critical"
                 ELSE IF sentiment = "frustrated" THEN "high"
                 ELSE IF lead_score >= 4 THEN "medium"
                 ELSE "low"]

NoFault == [report |-> 0]
NoResponse == [reply |-> <<>>]

\* SimpleRAG.retrieve finds a chunk of the loaded knowledge base with a
\* positive relevance: the empty query is a substring of every chunk, "5" of
\* some chunk, and these words are a keyword or a term of some chunk
RagWords == {"akut", "vattenläcka", "ingen", "värme", "kranen", "droppar", "konsumentverket",
             "vad", "kostar", "information", "avtal", "faktureringsfel", "lediga"}
rag_hit(message) ==
    \/ message = <<>>
    \/ message = <<"5">>
    \/ \E i \in 1..Len(message) : LowerWord(message[i]) \in RagWords

\* SupportStarterBot._get_fallback_response: the top chunk for the query,
\* else the FAQ answer for the first trigger phrase (the pricing pattern has
\* one), else the reply fixed for the intent or the sentiment
get_fallback_response(message, router_result) ==
    IF rag_hit(message) THEN <<"(chunk)">> \o Lower(message)
    ELSE IF router_result.intent = "pricing_question" THEN <<"(faq)">>
    ELSE IF router_result.intent = "booking_request" THEN <<"(booking)">>
    ELSE IF router_result.sentiment = "angry" THEN <<"(angry)">>
    ELSE IF router_result.sentiment = "frustrated" THEN <<"(frustrated)">>
    ELSE <<"(default)">>

generate_response_unguarded(api, message, router_result) ==
    IF api = "unavailable" THEN get_fallback_response(message, router_result)
    ELSE <<"(llm)">>

\* SupportStarterBot._generate_response: the generation collaborator's
\* answer; when it raises, or when no client is configured, the fallback
generate_response(api, message, router_result) ==
    IF api = "ok" THEN <<"(llm)">> ELSE get_fallback_response(message, router_result)

(***************************************************************************)
(* Inputs.                                                                 *)
(***************************************************************************)
Greeting == <<"hej">>
CriticalText == <<"akut", "vattenläcka">>
HighText == <<"ingen", "värme">>
MediumText == <<"kranen", "droppar">>
ContactText == <<"lgh", "5", "0701234567">>
InjectionText == <<"ignore", "instructions">>
SuspiciousText == <<"repeat">>
CapsText == <<"AKUT", "VATTENLÄCKA", "AKUT">>
LegalText == <<"konsumentverket">>

\* the messages sent to the bot
Messages == {Greeting, CriticalText, HighText, MediumText, ContactText,
             InjectionText, SuspiciousText, CapsText, LegalText}

\* conversation_history arguments and outcomes of the generation call
Histories == {NoHistory}
ApiOutcomes == {"ok", "error"}

\* the messages of a sales and support dialogue, with the histories a
\* caller passes and the outcomes of the generation call (answer, exception,
\* no client configured)
BuyText == <<"köpa">>
InfoText == <<"information">>
BuyAngryText == <<"köpa", "kaos">>
ManagerText == <<"chef">>
ApartmentsText == <<"lediga">>
GreetingLegalText == <<"hej", "konsumentverket">>
EmptyText == << >>
DialogMessages == {BuyText, InfoText, BuyAngryText, ManagerText, ApartmentsText,
                   GreetingLegalText, EmptyText}
DialogHistories == {NoHistory, ListHistory(<< >>),
                    ListHistory(<<[role |-> "user", content |-> Greeting]>>)}
DialogApiOutcomes == {"ok", "error", "unavailable"}

\* the arguments given to EscalationEngine.should_escalate on its own
EscIntents == {"general_inquiry", "technical_issue", "refund_request", "legal_threat"}
EscSentiments == {"neutral", "positive", "frustrated", "angry"}
EscLeads == {1, 4}
EscTurns == {0, 3, 4, max_conversation_turns, max_conversation_turns + 1}
EscWords == {"hej", "konsumentverket", "chef", "faktureringsfel", "avtal"}
RECURSIVE EscTextsUpTo(_)
EscTextsUpTo(n) ==
    IF n = 0 THEN {<<>>}
    ELSE EscTextsUpTo(n - 1) \cup {Append(t, w) : t \in EscTextsUpTo(n - 1), w \in EscWords}
EscTexts == EscTextsUpTo(MaxKeywords)

\* the arguments of the calls made one after another on one engine
EngineArgs ==
    [intent : {"general_inquiry"}, sentiment : {"neutral", "angry"}, lead_score : {1},
     conversation_turns : {0, max_conversation_turns + 1},
     message : {<<"hej">>, <<"chef">>, <<"konsumentverket">>}]

\* messages that give contact details, one phone number and then another
PhoneText == <<"0701234567">>
OtherPhoneText == <<"0709999999">>
MemoryMessages == {PhoneText, OtherPhoneText, ContactText, Greeting}

\* the messages that arrive while another message of the session is served
LocationText == <<"lgh", "5">>
WorkerMessages == {CriticalText, HighText, ContactText, LocationText, PhoneText, Greeting}

\* the messages of sessions that are reset or swept
SessionMessages == {HighText, InfoText}
SessionId == "s1"
SweepStep == 3570

\* the messages of sessions whose reports are completed
DispatchMessages == {CriticalText, HighText, ContactText, LocationText, Greeting}

\* one message of each kind: fault report, fast path, escalated, answered
\* the messages of a long conversation, and the number of its calls
TurnMessages == {InfoText, Greeting}
MaxTurnMsgs == 7
SweepMessages == {HighText, Greeting, LegalText, InfoText}

\* the messages and the histories given to IntelligentRouter.classify on
\* its own
PricingText == <<"pricing">>
PriceQuestionText == <<"vad", "kostar">>
LeadMessages == {PricingText, PriceQuestionText, InfoText, Greeting, BuyText, EmptyText}
LeadItems == {StrItem(PricingText), StrItem(PriceQuestionText),
              [role |-> "user", content |-> PricingText]}
RECURSIVE ItemsUpTo(_)
ItemsUpTo(n) ==
    IF n = 0 THEN {<<>>}
    ELSE ItemsUpTo(n - 1) \cup {Append(h, m) : h \in ItemsUpTo(n - 1), m \in LeadItems}
LeadHistories == {NoHistory} \cup {ListHistory(h) : h \in ItemsUpTo(MaxHistory)}

\* the texts given to the pure detectors
DetectorWords == {"hej", "akut", "vattenläcka", "ingen", "värme", "droppar", "AKUT"}
RECURSIVE TextsUpTo(_)
TextsUpTo(n) ==
    IF n = 0 THEN {<<>>}
    ELSE TextsUpTo(n - 1) \cup {Append(t, w) : t \in TextsUpTo(n - 1), w \in DetectorWords}
Texts == TextsUpTo(MaxLen)

\* the texts given to detect_category
CategoryWords == {"hej", "kranen", "radiator", "alarm", "ingen", "värme"}
RECURSIVE CategoryTextsUpTo(_)
CategoryTextsUpTo(n) ==
    IF n = 0 THEN {<<>>}
    ELSE CategoryTextsUpTo(n - 1) \cup {Append(t, w) : t \in CategoryTextsUpTo(n - 1), w \in CategoryWords}
CategoryTexts == CategoryTextsUpTo(MaxLen)

\* the texts given to _detect_intent
IntentWords == {"hej", "kostar", "pricing", "bugg", "refund", "cancel"}
RECURSIVE IntentTextsUpTo(_)
IntentTextsUpTo(n) ==
    IF n = 0 THEN {<<>>}
    ELSE IntentTextsUpTo(n - 1) \cup {Append(t, w) : t \in IntentTextsUpTo(n - 1), w \in IntentWords}
IntentTexts == IntentTextsUpTo(MaxLen)

(***************************************************************************)
(* Initial state and actions.                                              *)
(***************************************************************************)
\* the workers that serve inbound messages, and no call in flight
Workers == {"w1", "w2"}
Idle == [pc |-> "idle"]
NoCalls == [w \in Workers |-> Idle]

\* a call's reference to its session: the object stored in memory.sessions,
\* or an object that was deleted from it
Held == [orphan |-> FALSE]
Orphan(session) == [orphan |-> TRUE, session |-> session]

Init ==
    /\ now = 0
    /\ ticks = 0
    /\ requests = [i \in Ids |-> <<>>]
    /\ sessions = EmptyMap
    /\ pending_reports = EmptyMap
    /\ reports = <<>>
    /\ dispatched = <<>>
    /\ metrics = EmptyMap
    /\ calls = NoCalls
    /\ last = [op |-> "init", n |-> 0]

\* len(content) of a stored message: a customer's text by its words, a reply
\* of the bot as the one token that stands for it
ContentLen(t) ==
    IF t = <<>> THEN 0
    ELSE SumOver([w \in Words \cup {t[i] : i \in 1..Len(t)} |->
                     IF w \in Words THEN WordLen(w) ELSE 1], t) + (Len(t) - 1)

\* content[:n]: the words of a text that fit in its first n characters
Truncated(t, n) ==
    SubSeq(t, 1, Cardinality({k \in 1..Len(t) : ContentLen(SubSeq(t, 1, k)) <= n}))

\* the texts _extract_customer_issue returns when it finds no user message
NoDescription == <<"Ingen beskrivning tillgänglig">>
NotSpecified == <<"Ej specificerat">>

\* EscalationEngine._extract_customer_issue: the first message with role
\* "user" of the list it is given, cut to 200 characters
extract_customer_issue(messages) ==
    IF messages = <<>> THEN NoDescription
    ELSE IF \E k \in 1..Len(messages) : messages[k].role = "user"
    THEN Truncated(messages[CHOOSE k \in 1..Len(messages) :
                                /\ messages[k].role = "user"
                                /\ \A j \in 1..(k - 1) : messages[j].role # "user"].content,
                   200)
    ELSE NotSpecified

\* EscalationEngine._summarize_messages: "role: content[:100]..." for the
\* last five messages of the list it is given
summarize_messages(messages) ==
    [k \in 1..Len(LastItems(messages, 5)) |->
        [role |-> LastItems(messages, 5)[k].role,
         content |-> Truncated(LastItems(messages, 5)[k].content, 100)]]

\* EscalationEngine.create_escalation_packet: the customer issue and the
\* trailing summary of the EscalationContext, from conversation_data["messages"]
create_escalation_packet(messages) ==
    [customer_issue |-> extract_customer_issue(messages),
     messages_summary |-> summarize_messages(messages)]

\* no escalation packet was built
NoPacket == [customer_issue |-> <<>>, messages_summary |-> <<>>]

\* what a process_message call leaves in `last`: its arguments, the
\* security verdict, the stage whose return statement ended the call, the
\* stages that were run, the fault system's result, the response, the
\* outcome of the generation call when one was made, the time of the call, and
\* the escalation packet when one was built
Returned(session_id, message_in, allowed, reason, sanitized, stage, ran, fault, response) ==
    [op |-> "process_message", n |-> last.n + 1,
     session_id |-> session_id, message |-> message_in,
     allowed |-> allowed, reason |-> reason, sanitized |-> sanitized,
     stage |-> stage, ran |-> ran, fault |-> fault, response |-> response,
     api |-> NoneVal, at |-> now, packet |-> NoPacket]

\* process_message from the fault system's result on: the fault reply, the
\* local model, the router, the escalation or the generated reply.  sess is
\* memory.sessions and held the call's own reference `session`: the object
\* stored in sess, or the object it was when an eviction or a reset took it
\* out of sess (orphan).  The memory's methods look the session up by id and
\* create it when it is missing.
AfterFaultReport(session_id, message_in, message, sess, held, metric, fr, history, api) ==
    \E report \in {fr.heap[fr.result.report]} :
      /\ pending_reports' = fr.pending
      /\ reports' = fr.heap
      /\ dispatched' = fr.disp
      /\ IF report.urgency # "low"
         THEN \E is_urgent \in {report.urgency \in {"critical", "high"}} :
              \E follow_up \in {IF fr.result.collect_more_info
                                THEN get_collection_questions(report) ELSE <<>>} :
                /\ sessions' = sess
                /\ metrics' = Put(metrics, session_id,
                                  IF is_urgent
                                  THEN track_escalation(metric, report.urgency)
                                  ELSE metric)
                /\ last' = Returned(session_id, message_in, TRUE, NoneVal, message,
                       "fault", {"security", "session", "fault"}, fr.result,
                       create_response(
                           <<fr.result.response>> \o fr.result.questions \o follow_up,
                           "fault_report", 95,
                           IF report.urgency # "critical" THEN "neutral"
                           ELSE "frustrated",
                           2, is_urgent, "collect_info"))
         ELSE IF can_handle(message)
         THEN \* 3. local model
              \E local_result \in {local_generate(message)} :
                /\ sessions' = sess
                /\ metrics' = Put(metrics, session_id, metric)
                /\ last' = Returned(session_id, message_in, TRUE, NoneVal, message,
                       "fastpath", {"security", "session", "fault", "fastpath"},
                       fr.result,
                       create_response(
                           local_result.response, local_result.intent,
                           local_result.confidence, "neutral",
                           local_result.lead_score, local_result.escalate,
                           IF local_result.escalate THEN "escalate" ELSE "none"))
         ELSE
         \* 4. router, 5. tracking, 6. extracted info, 7. escalation
         \E router_result \in {classify(message, history)} :
         IF router_result.raised
         THEN \* the exception leaves process_message
              /\ sessions' = sess
              /\ metrics' = Put(metrics, session_id, metric)
              /\ last' = Returned(session_id, message_in, TRUE, NoneVal, message,
                     "raise", {"security", "session", "fault", "fastpath", "router"},
                     fr.result, NoResponse)
         ELSE
         \E metric2 \in {track_message(metric, "user", router_result.lead_score, TRUE)} :
         \E base \in {get_or_create_session(sess, session_id, now)[session_id]} :
         \E session2 \in {store_extracted_info(base, message)} :
         \E sess2 \in {IF session_id \in DOMAIN sess \/ session2 # base
                       THEN Put(sess, session_id, session2) ELSE sess} :
         \E session \in {IF held.orphan THEN held.session ELSE session2} :
         \E escalation_reason \in {should_escalate(
                router_result.intent, router_result.sentiment,
                router_result.lead_score, Len(session.messages), message)} :
           IF escalation_reason # NoneVal
           THEN /\ sessions' = sess2
                /\ metrics' = Put(metrics, session_id,
                                  track_escalation(metric2, escalation_reason))
                /\ last' = [Returned(session_id, message_in, TRUE, NoneVal, message,
                       "escalation",
                       {"security", "session", "fault", "fastpath", "router",
                        "escalation"},
                       fr.result,
                       create_response(
                           <<"(escalation)", escalation_reason>>,
                           router_result.intent, router_result.confidence,
                           router_result.sentiment, router_result.lead_score,
                           TRUE, "escalate"))
                            EXCEPT !.packet = create_escalation_packet(session.messages)]
           ELSE
           \* 8. normal response, 9. tracking, 10. memory
           \E reply \in {generate_response(api, message, router_result)} :
           \E metric3 \in {IF router_result.lead_score >= 4
                           THEN track_conversion(metric2) ELSE metric2} :
           \E session3 \in {add_user_message(get_or_create_session(sess2, session_id, now)[session_id],
                                message, router_result.intent,
                                router_result.sentiment, router_result.lead_score,
                                now)} :
             /\ sessions' = Put(sess2, session_id,
                                add_bot_message(session3, reply, now))
             /\ metrics' = Put(metrics, session_id,
                               track_message(metric3, "bot", 0, FALSE))
             /\ last' = [Returned(session_id, message_in, TRUE, NoneVal, message,
                    "reply",
                    {"security", "session", "fault", "fastpath", "router",
                     "escalation", "generate", "memory"},
                    fr.result,
                    create_response(
                        reply, router_result.intent, router_result.confidence,
                        router_result.sentiment, router_result.lead_score, FALSE,
                        IF router_result.lead_score >= 4 THEN "book_call"
                        ELSE "none")) EXCEPT !.api = api]

\* one call of SupportStarterBot.process_message, among at most `bound` calls
ProcessMessageUpTo(bound, session_id, message_in, history, api) ==
    /\ last.n < bound
    /\ UNCHANGED <<now, ticks, calls>>
    /\ \E rl \in {RateLimiter_check(requests[session_id], now)} :
       \E sec \in {process_input(message_in, rl.allowed)} :
         /\ requests' = [requests EXCEPT ![session_id] = rl.requests]
         /\ IF ~sec.allowed
            THEN \* 1. security check: the denial
                 /\ UNCHANGED <<sessions, pending_reports, reports, dispatched, metrics>>
                 /\ last' = Returned(session_id, message_in, FALSE,
                                     IF rl.allowed THEN sec.reason ELSE rl.reason,
                                     sec.sanitized, "security", {"security"}, NoFault,
                                     create_response(<<"(denied)">>, "security_block", 100,
                                                     "neutral", 1, FALSE, "none"))
            ELSE
            \* 2. session and metrics, 2.5 fault report
            \E message \in {sec.sanitized} :
            \E sess \in {get_or_create_session(sessions, session_id, now)} :
            \E session \in {sess[session_id]} :
            \E metric \in {NewMetric} :
            \E fr \in {collect_fault_report(pending_reports, reports, dispatched, message,
                           [session_id |-> session_id,
                            customer_name |-> MemoryValue(session, "customer_name"),
                            customer_email |-> MemoryValue(session, "customer_email"),
                            customer_phone |-> MemoryValue(session, "customer_phone")],
                           now)} :
              AfterFaultReport(session_id, message_in, message, sess, Held, metric, fr,
                               history, api)

\* one call of process_message, among at most MaxMsgs calls
ProcessMessage(session_id, message_in, history, api) ==
    ProcessMessageUpTo(MaxMsgs, session_id, message_in, history, api)

\* The bot driven by one worker per inbound message.  A call runs from its
\* entry to the test "session_id in self.pending_reports" of
\* collect_fault_report (fault_reports.py:254-255), where another worker's
\* call may run, and then from there to its return.
InFlight == {w \in Workers : calls[w].pc # "idle"}

\* process_message up to the pending test: security check, session, metrics
EnterProcessMessage(w, session_id, message_in) ==
    /\ calls[w].pc = "idle"
    /\ last.n + Cardinality(InFlight) < MaxMsgs
    /\ UNCHANGED <<now, ticks, pending_reports, reports, dispatched>>
    /\ \E rl \in {RateLimiter_check(requests[session_id], now)} :
       \E sec \in {process_input(message_in, rl.allowed)} :
         /\ requests' = [requests EXCEPT ![session_id] = rl.requests]
         /\ IF ~sec.allowed
            THEN /\ UNCHANGED <<sessions, metrics, calls>>
                 /\ last' = Returned(session_id, message_in, FALSE,
                                     IF rl.allowed THEN sec.reason ELSE rl.reason,
                                     sec.sanitized, "security", {"security"}, NoFault,
                                     create_response(<<"(denied)">>, "security_block", 100,
                                                     "neutral", 1, FALSE, "none"))
            ELSE \E session \in {get_or_create_session(sessions, session_id, now)[session_id]} :
                 /\ sessions' = Put(sessions, session_id, session)
                 /\ metrics' = Put(metrics, session_id, NewMetric)
                 /\ calls' = [calls EXCEPT ![w] =
                        [pc |-> "collect", session_id |-> session_id,
                         message_in |-> message_in, message |-> sec.sanitized,
                         session_data |->
                             [session_id |-> session_id,
                              customer_name |-> MemoryValue(session, "customer_name"),
                              customer_email |-> MemoryValue(session, "customer_email"),
                              customer_phone |-> MemoryValue(session, "customer_phone")],
                         held |-> Held,
                         saw_pending |-> has_pending(pending_reports, session_id),
                         report |-> IF has_pending(pending_reports, session_id)
                                    THEN pending_reports[session_id] ELSE 0]]
                 /\ UNCHANGED last

\* process_message from the pending test to its return
ResumeProcessMessage(w, api) ==
    /\ calls[w].pc = "collect"
    /\ UNCHANGED <<now, ticks, requests>>
    /\ calls' = [calls EXCEPT ![w] = Idle]
    /\ \E c \in {calls[w]} :
       \E fr \in {collect_fault_report_resumed(c.saw_pending, c.report, pending_reports,
                      reports, dispatched, c.message, c.session_data, now)} :
         IF fr.raised
         THEN \* KeyError leaves process_message
              /\ pending_reports' = fr.pending
              /\ reports' = fr.heap
              /\ dispatched' = fr.disp
              /\ UNCHANGED <<sessions, metrics>>
              /\ last' = Returned(c.session_id, c.message_in, TRUE, NoneVal, c.message,
                                  "raise", {"security", "session", "fault"}, NoFault,
                                  NoResponse)
         ELSE AfterFaultReport(c.session_id, c.message_in, c.message, sessions, c.held,
                               metrics[c.session_id], fr, NoHistory, api)

\* A deployment with ADMIN_EMAIL and SMTP_HOST set: _send_report_email opens
\* smtplib.SMTP(self.smtp_host, self.smtp_port), without a timeout, and
\* waits for the mail server inside collect_fault_report.
smtp_configured == TRUE

\* process_message up to the call of _send_report_email for a message that
\* completes a report (fault_reports.py:283 and 339); the whole call for any
\* other message
StartProcessMessage(w, session_id, message_in, api) ==
    /\ InFlight = {}
    /\ last.n < MaxMsgs
    /\ UNCHANGED <<now, ticks>>
    /\ \E rl \in {RateLimiter_check(requests[session_id], now)} :
       \E sec \in {process_input(message_in, rl.allowed)} :
         /\ requests' = [requests EXCEPT ![session_id] = rl.requests]
         /\ IF ~sec.allowed
            THEN /\ UNCHANGED <<sessions, pending_reports, reports, dispatched, metrics, calls>>
                 /\ last' = Returned(session_id, message_in, FALSE,
                                     IF rl.allowed THEN sec.reason ELSE rl.reason,
                                     sec.sanitized, "security", {"security"}, NoFault,
                                     create_response(<<"(denied)">>, "security_block", 100,
                                                     "neutral", 1, FALSE, "none"))
            ELSE
            \E sess \in {get_or_create_session(sessions, session_id, now)} :
            \E session \in {sess[session_id]} :
            \E fr \in {collect_fault_report(pending_reports, reports, dispatched, sec.sanitized,
                           [session_id |-> session_id,
                            customer_name |-> MemoryValue(session, "customer_name"),
                            customer_email |-> MemoryValue(session, "customer_email"),
                            customer_phone |-> MemoryValue(session, "customer_phone")],
                           now)} :
              IF fr.result.is_complete /\ smtp_configured
              THEN /\ sessions' = sess
                   /\ metrics' = Put(metrics, session_id, NewMetric)
                   /\ pending_reports' = fr.pending
                   /\ reports' = fr.heap
                   /\ dispatched' = fr.disp
                   /\ calls' = [calls EXCEPT ![w] =
                          [pc |-> "send", session_id |-> session_id,
                           message_in |-> message_in, message |-> sec.sanitized,
                           fr |-> fr]]
                   /\ UNCHANGED last
              ELSE /\ AfterFaultReport(session_id, message_in, sec.sanitized, sess, Held,
                                       NewMetric, fr, NoHistory, api)
                   /\ UNCHANGED calls

\* the mail server answers (or refuses): server.send_message returns or
\* raises, and _send_report_email returns
SmtpAnswers(w) ==
    /\ calls[w].pc = "send"
    /\ calls' = [calls EXCEPT ![w].pc = "sent"]
    /\ UNCHANGED <<now, ticks, requests, sessions, pending_reports, reports, dispatched, metrics, last>>

\* process_message from the return of _send_report_email to its own return
ReturnProcessMessage(w, api) ==
    /\ calls[w].pc = "sent"
    /\ UNCHANGED <<now, ticks, requests>>
    /\ calls' = [calls EXCEPT ![w] = Idle]
    /\ \E c \in {calls[w]} :
         AfterFaultReport(c.session_id, c.message_in, c.message, sessions, Held,
                          metrics[c.session_id], c.fr, NoHistory, api)

\* the calls in flight after the sessions in `removed` were deleted from
\* memory.sessions: a call that holds one of them keeps the deleted object
Disown(removed) ==
    [w \in Workers |->
        IF calls[w].pc = "collect" /\ calls[w].session_id \in removed /\ ~calls[w].held.orphan
        THEN [calls[w] EXCEPT !.held = Orphan(sessions[calls[w].session_id])]
        ELSE calls[w]]

\* POST /reset: "if session_id in bot.memory.sessions: del ..."
ResetSession(session_id) ==
    /\ session_id \in DOMAIN sessions
    /\ sessions' = Del(sessions, session_id)
    /\ calls' = Disown({session_id})
    /\ UNCHANGED <<now, ticks, requests, pending_reports, reports, dispatched, metrics, last>>

\* one run of ConversationMemory.cleanup_old_sessions
CleanupOldSessions ==
    /\ sessions' = cleanup_old_sessions(sessions, now)
    /\ calls' = Disown(timed_out(sessions, now))
    /\ UNCHANGED <<now, ticks, requests, pending_reports, reports, dispatched, metrics, last>>

\* one call of RateLimiter.check
Check_records_rejection(identifier) ==
    /\ last.n < MaxChecks
    /\ LET r0 == RateLimiter_check(requests[identifier], now)
           r == IF r0.allowed THEN r0 ELSE [r0 EXCEPT !.requests = Append(@, now)]
       IN /\ requests' = [requests EXCEPT ![identifier] = r.requests]
          /\ last' = [op |-> "check", n |-> last.n + 1, identifier |-> identifier,
                      allowed |-> r.allowed, reason |-> r.reason,
                      stored_before |-> Len(requests[identifier]),
                      stored_after |-> Len(r.requests)]
    /\ UNCHANGED <<now, ticks, sessions, pending_reports, reports, dispatched, metrics, calls>>

Check(identifier) ==
    /\ last.n < MaxChecks
    /\ LET r == RateLimiter_check(requests[identifier], now)
       IN /\ requests' = [requests EXCEPT ![identifier] = r.requests]
          /\ last' = [op |-> "check", n |-> last.n + 1, identifier |-> identifier,
                      allowed |-> r.allowed, reason |-> r.reason,
                      stored_before |-> Len(requests[identifier]),
                      stored_after |-> Len(r.requests)]
    /\ UNCHANGED <<now, ticks, sessions, pending_reports, reports, dispatched, metrics, calls>>

\* RateLimiter.check served by one worker per request.  A call runs from its
\* entry to the two limit tests (security.py:161-182), where another
\* worker's call may run, and then records its request (security.py:184-185).
\* A refused call returns at the tests.
CheckTests(w, identifier) ==
    /\ calls[w].pc = "idle"
    /\ last.n + Cardinality(InFlight) < MaxChecks
    /\ \E r \in {RateLimiter_check(requests[identifier], now)} :
       \E request_times \in {KeepHour(requests[identifier], now)} :
         /\ requests' = [requests EXCEPT ![identifier] = request_times]
         /\ IF r.allowed
            THEN /\ calls' = [calls EXCEPT ![w] =
                                 [pc |-> "record", identifier |-> identifier, now |-> now,
                                  stored_before |-> Len(requests[identifier])]]
                 /\ UNCHANGED last
            ELSE /\ last' = [op |-> "check", n |-> last.n + 1, identifier |-> identifier,
                             allowed |-> FALSE, reason |-> r.reason,
                             stored_before |-> Len(requests[identifier]),
                             stored_after |-> Len(request_times)]
                 /\ UNCHANGED calls
    /\ UNCHANGED <<now, ticks, sessions, pending_reports, reports, dispatched, metrics>>

\* "self.requests[identifier].append(now)" and the return of (True, None)
CheckRecord(w) ==
    /\ calls[w].pc = "record"
    /\ \E c \in {calls[w]} :
         /\ requests' = [requests EXCEPT ![c.identifier] = Append(@, c.now)]
         /\ last' = [op |-> "check", n |-> last.n + 1, identifier |-> c.identifier,
                     allowed |-> TRUE, reason |-> NoneVal,
                     stored_before |-> c.stored_before,
                     stored_after |-> Len(requests[c.identifier]) + 1]
    /\ calls' = [calls EXCEPT ![w] = Idle]
    /\ UNCHANGED <<now, ticks, sessions, pending_reports, reports, dispatched, metrics>>

\* the clock advances
Tick(d) ==
    /\ ticks < MaxTicks
    /\ now' = now + d
    /\ ticks' = ticks + 1
    /\ UNCHANGED <<requests, sessions, pending_reports, reports, dispatched, metrics, last, calls>>

\* one call of FaultReportSystem.detect_urgency on the text drawn at the start
DetectUrgency ==
    /\ last.op = "input"
    /\ last' = [op |-> "detect_urgency", n |-> 0, text |-> last.text,
                urgency |-> detect_urgency(last.text)]
    /\ UNCHANGED <<now, ticks, requests, sessions, pending_reports, reports, dispatched, metrics, calls>>

Next == \E s \in Ids, m \in Messages, h \in Histories, a \in ApiOutcomes : ProcessMessage(s, m, h, a)

Spec == Init /\ [][Next]_vars

NextDialog == \E s \in Ids, m \in DialogMessages, h \in DialogHistories, a \in DialogApiOutcomes : ProcessMessage(s, m, h, a)

SpecDialog == Init /\ [][NextDialog]_vars

\* one call of EscalationEngine.should_escalate on the arguments drawn at
\* the start, for a ClassificationResult whose own flag is router_flag
ShouldEscalate ==
    /\ last.op = "escalation_input"
    /\ last' = [op |-> "should_escalate", n |-> 0,
                intent |-> last.intent, sentiment |-> last.sentiment,
                lead_score |-> last.lead_score,
                conversation_turns |-> last.conversation_turns, message |-> last.message,
                router_flag |-> router_should_escalate(last.intent, last.sentiment,
                                                       last.lead_score),
                reason |-> should_escalate(last.intent, last.sentiment, last.lead_score,
                                           last.conversation_turns, last.message)]
    /\ UNCHANGED <<now, ticks, requests, sessions, pending_reports, reports, dispatched, metrics, calls>>

InitEscalation ==
    /\ now = 0
    /\ ticks = 0
    /\ requests = [i \in Ids |-> <<>>]
    /\ sessions = EmptyMap
    /\ pending_reports = EmptyMap
    /\ reports = <<>>
    /\ dispatched = <<>>
    /\ metrics = EmptyMap
    /\ calls = NoCalls
    /\ \E i \in EscIntents, s \in EscSentiments, l \in EscLeads, c \in EscTurns, m \in EscTexts :
          last = [op |-> "escalation_input", n |-> 0, intent |-> i, sentiment |-> s,
                  lead_score |-> l, conversation_turns |-> c, message |-> m]

NextEscalation == ShouldEscalate

SpecEscalation == InitEscalation /\ [][NextEscalation]_vars

\* the calls made so far on the engine, with what each returned
EngineCalls == IF last.op = "engine_call" THEN last.calls ELSE <<>>

EngineCall_counting(args) ==
    /\ last.n < MaxCalls
    /\ \E reason \in {should_escalate(args.intent, args.sentiment, args.lead_score,
                                       args.conversation_turns + max_conversation_turns * last.n,
                                       args.message)} :
         last' = [op |-> "engine_call", n |-> last.n + 1,
                  calls |-> Append(EngineCalls,
                                   [args |-> args, reason |-> reason,
                                    priority |-> rule_priority(reason)])]
    /\ UNCHANGED <<now, ticks, requests, sessions, pending_reports, reports, dispatched, metrics, calls>>

\* one call of EscalationEngine.should_escalate, and of
\* create_escalation_packet for the priority when it gave a reason, on the
\* engine the earlier calls were made on
EngineCall(args) ==
    /\ last.n < MaxCalls
    /\ \E reason \in {should_escalate(args.intent, args.sentiment, args.lead_score,
                                       args.conversation_turns, args.message)} :
         last' = [op |-> "engine_call", n |-> last.n + 1,
                  calls |-> Append(EngineCalls,
                                   [args |-> args, reason |-> reason,
                                    priority |-> rule_priority(reason)])]
    /\ UNCHANGED <<now, ticks, requests, sessions, pending_reports, reports, dispatched, metrics, calls>>

NextEngine == \E args \in EngineArgs : EngineCall(args)

SpecEngine == Init /\ [][NextEngine]_vars

\* one call of IntelligentRouter.classify on the message and the history
\* drawn at the start
Classify ==
    /\ last.op = "classify_input"
    /\ last' = [op |-> "classify", n |-> 0, message |-> last.message,
                history |-> last.history, result |-> classify(last.message, last.history)]
    /\ UNCHANGED <<now, ticks, requests, sessions, pending_reports, reports, dispatched, metrics, calls>>

InitLead ==
    /\ now = 0
    /\ ticks = 0
    /\ requests = [i \in Ids |-> <<>>]
    /\ sessions = EmptyMap
    /\ pending_reports = EmptyMap
    /\ reports = <<>>
    /\ dispatched = <<>>
    /\ metrics = EmptyMap
    /\ calls = NoCalls
    /\ \E m \in LeadMessages, h \in LeadHistories :
          last = [op |-> "classify_input", n |-> 0, message |-> m, history |-> h]

NextLead == Classify

SpecLead == InitLead /\ [][NextLead]_vars

NextMemory == \E s \in Ids, m \in MemoryMessages, a \in ApiOutcomes : ProcessMessage(s, m, NoHistory, a)

SpecMemory == Init /\ [][NextMemory]_vars

NextWorkers == (\E w \in Workers, s \in Ids, m \in WorkerMessages : EnterProcessMessage(w, s, m)) \/ (\E w \in Workers, a \in ApiOutcomes : ResumeProcessMessage(w, a))

SpecWorkers == Init /\ [][NextWorkers]_vars

NextSessions == (\E w \in Workers, m \in SessionMessages : EnterProcessMessage(w, SessionId, m)) \/ (\E w \in Workers, a \in ApiOutcomes : ResumeProcessMessage(w, a)) \/ ResetSession(SessionId) \/ CleanupOldSessions \/ Tick(SweepStep)

SpecSessions == Init /\ [][NextSessions]_vars

NextDispatch == (\E w \in Workers, s \in Ids, m \in DispatchMessages, a \in ApiOutcomes : StartProcessMessage(w, s, m, a)) \/ (\E w \in Workers : SmtpAnswers(w)) \/ (\E w \in Workers, a \in ApiOutcomes : ReturnProcessMessage(w, a))

\* the bot's own steps are taken when they can be; nothing obliges the mail
\* server to answer
SpecDispatch == Init /\ [][NextDispatch]_vars /\ WF_vars(\E w \in Workers, a \in ApiOutcomes : ReturnProcessMessage(w, a))

NextSweep == (\E m \in SweepMessages, a \in ApiOutcomes : ProcessMessage(SessionId, m, NoHistory, a)) \/ (\E d \in TickSteps : Tick(d)) \/ CleanupOldSessions

SpecSweep == Init /\ [][NextSweep]_vars

\* a long conversation of one session: messages that the router answers or
\* the local model answers, hours passing, and the sweep
NextTurns == (\E m \in TurnMessages : ProcessMessageUpTo(MaxTurnMsgs, SessionId, m, NoHistory, "ok")) \/ Tick(SweepStep) \/ CleanupOldSessions

SpecTurns == Init /\ [][NextTurns]_vars

NextRate == (\E i \in Ids : Check(i)) \/ (\E d \in TickSteps : Tick(d))

SpecRate == Init /\ [][NextRate]_vars

NextRateWorkers == (\E w \in Workers, i \in Ids : CheckTests(w, i)) \/ (\E w \in Workers : CheckRecord(w)) \/ (\E d \in TickSteps : Tick(d))

SpecRateWorkers == Init /\ [][NextRateWorkers]_vars

InitUrgency ==
    /\ now = 0
    /\ ticks = 0
    /\ requests = [i \in Ids |-> <<>>]
    /\ sessions = EmptyMap
    /\ pending_reports = EmptyMap
    /\ reports = <<>>
    /\ dispatched = <<>>
    /\ metrics = EmptyMap
    /\ calls = NoCalls
    /\ \E t \in Texts : last = [op |-> "input", n |-> 0, text |-> t]

NextUrgency == DetectUrgency

SpecUrgency == InitUrgency /\ [][NextUrgency]_vars

\* one call of FaultReportSystem.detect_category on the text drawn at the start
DetectCategory ==
    /\ last.op = "category_input"
    /\ last' = [op |-> "detect_category", n |-> 0, text |-> last.text,
                category |-> detect_category(last.text)]
    /\ UNCHANGED <<now, ticks, requests, sessions, pending_reports, reports, dispatched, metrics, calls>>

InitCategory ==
    /\ now = 0
    /\ ticks = 0
    /\ requests = [i \in Ids |-> <<>>]
    /\ sessions = EmptyMap
    /\ pending_reports = EmptyMap
    /\ reports = <<>>
    /\ dispatched = <<>>
    /\ metrics = EmptyMap
    /\ calls = NoCalls
    /\ \E t \in CategoryTexts : last = [op |-> "category_input", n |-> 0, text |-> t]

NextCategory == DetectCategory

SpecCategory == InitCategory /\ [][NextCategory]_vars

\* one call of IntelligentRouter._detect_intent on the message drawn at the start
DetectIntent ==
    /\ last.op = "intent_input"
    /\ last' = [op |-> "detect_intent", n |-> 0, message |-> last.message,
                result |-> detect_intent(last.message)]
    /\ UNCHANGED <<now, ticks, requests, sessions, pending_reports, reports, dispatched, metrics, calls>>

InitIntent ==
    /\ now = 0
    /\ ticks = 0
    /\ requests = [i \in Ids |-> <<>>]
    /\ sessions = EmptyMap
    /\ pending_reports = EmptyMap
    /\ reports = <<>>
    /\ dispatched = <<>>
    /\ metrics = EmptyMap
    /\ calls = NoCalls
    /\ \E m \in IntentTexts : last = [op |-> "intent_input", n |-> 0, message |-> m]

NextIntent == DetectIntent

SpecIntent == InitIntent /\ [][NextIntent]_vars

(***************************************************************************)
(* Properties.                                                             *)
(***************************************************************************)
Range(f) == {f[k] : k \in DOMAIN f}

\* the number of stored timestamps younger than w at time t
CountSince(reqs, t, w) == Cardinality({k \in DOMAIN reqs : t - reqs[k] < w})

\* a process_message step: the call counter moves
IsCall == last'.op = "process_message" /\ last'.n = last.n + 1
\* a RateLimiter.check step
IsCheck == last'.op = "check" /\ last'.n = last.n + 1

\* C1: an allowed message that matches a CRITICAL or HIGH fault pattern
\* yields intent fault_report with escalate = true, whatever allowed
\* messages the session received before.
C1_UrgentMessageIsFaultReport ==
    (last.op = "process_message" /\ last.allowed
        /\ (AnyMatch(critical_patterns, Lower(last.sanitized))
            \/ AnyMatch(high_patterns, Lower(last.sanitized))))
    => (last.response.intent = "fault_report" /\ last.response.escalate)

\* C2: detect_urgency returns the first tier, in the order CRITICAL, HIGH,
\* MEDIUM, that has a matching pattern, and LOW when no pattern matches.
C2_TierOrder ==
    last.op = "detect_urgency" =>
        LET t == Lower(last.text)
            c == AnyMatch(critical_patterns, t)
            h == AnyMatch(high_patterns, t)
            m == AnyMatch(medium_patterns, t)
        IN /\ c => last.urgency = "critical"
           /\ (~c /\ h) => last.urgency = "high"
           /\ (~c /\ ~h /\ m) => last.urgency = "medium"
           /\ (~c /\ ~h /\ ~m) => last.urgency = "low"

\* C2 witness: a text matching a CRITICAL and a HIGH pattern was classified
\* CRITICAL
C2_Witness ==
    /\ last.op = "detect_urgency"
    /\ last.urgency = "critical"
    /\ AnyMatch(high_patterns, Lower(last.text))

\* C3: every collect_fault_report result whose report is CRITICAL or HIGH
\* has escalate_immediately = true, new or continued, complete or not.
C3_UrgentReportEscalates ==
    (last.op = "process_message" /\ last.allowed
        /\ reports[last.fault.report].urgency \in {"critical", "high"})
    => last.fault.escalate_immediately

Rank(status) == CASE status = "collecting" -> 0 [] status = "complete" -> 1 [] OTHER -> 2

\* C4: a report's status never moves backward along collecting, complete,
\* sent, and a report with status sent was handed to the notification.
C4_StatusForward ==
    [][/\ \A r \in DOMAIN reports :
            /\ r \in DOMAIN reports'
            /\ Rank(reports'[r].status) >= Rank(reports[r].status)
       /\ \A r \in DOMAIN reports' :
            reports'[r].status = "sent" => r \in Range(dispatched')]_vars

\* C4 witness: a report that was open has been completed
C4_Witness ==
    /\ last.op = "process_message" /\ last.allowed
    /\ ~last.fault.is_new_report
    /\ reports[last.fault.report].status = "complete"

\* C5: the call that completes a report dispatches it and leaves it with
\* status sent.
C5_CompletedIsSent ==
    (last.op = "process_message" /\ last.allowed /\ last.fault.is_complete)
    => (/\ last.fault.report \in Range(dispatched)
        /\ reports[last.fault.report].status = "sent")

\* C6: a LOW message of a session without an open report stores no open
\* report, dispatches nothing and goes on to the fast path.
C6_LowIsNoReport ==
    [][(IsCall /\ last'.allowed
           /\ last'.session_id \notin DOMAIN pending_reports
           /\ detect_urgency(last'.sanitized) = "low")
       => (/\ last'.session_id \notin DOMAIN pending_reports'
           /\ dispatched' = dispatched
           /\ "fastpath" \in last'.ran)]_vars

\* C7: a check of an identifier with exactly max_per_minute requests in the
\* last 60 seconds is rejected, and after it every other identifier below
\* its own caps is still allowed.
C7_MinuteCap ==
    [][\A i \in Ids :
        (IsCheck /\ last'.identifier = i
            /\ CountSince(requests[i], now, MinuteWindow) = max_per_minute)
        => (/\ ~last'.allowed
            /\ \A j \in Ids \ {i} :
                 (/\ CountSince(requests[j], now, MinuteWindow) < max_per_minute
                  /\ CountSince(requests[j], now, HourWindow) < max_per_hour)
                 => RateLimiter_check(requests'[j], now').allowed)]_vars

\* C7 witness: an identifier was rejected at the per-minute cap while
\* another one, which has made a request, would be allowed
C7_Witness ==
    /\ last.op = "check" /\ ~last.allowed
    /\ CountSince(requests[last.identifier], now, MinuteWindow) = max_per_minute
    /\ \E j \in Ids \ {last.identifier} :
         requests[j] # <<>> /\ RateLimiter_check(requests[j], now).allowed

\* C8 as stated: the stored request count is the same after a rejection
\* as before.
C8_SameCountAfterRejection ==
    [][\A i \in Ids :
        (IsCheck /\ last'.identifier = i /\ ~last'.allowed)
        => Len(requests'[i]) = Len(requests[i])]_vars

\* C8 amended: a rejection records nothing; it leaves exactly the stored
\* requests younger than one hour, so the verdict of any later check is
\* what it would have been without the rejected attempt.
C8_RejectionNotRecorded ==
    [][\A i \in Ids :
        (IsCheck /\ last'.identifier = i /\ ~last'.allowed)
        => (/\ requests'[i] = SelectSeq(requests[i], LAMBDA ts : now - ts < HourWindow)
            /\ \A d \in TickSteps \cup {0, MinuteWindow, HourWindow} :
                 RateLimiter_check(requests'[i], now + d).allowed
                     = RateLimiter_check(requests[i], now + d).allowed)]_vars

\* C8 witness: a rejection that purged a request older than one hour
C8_Witness ==
    /\ last.op = "check" /\ ~last.allowed
    /\ last.stored_after < last.stored_before
    /\ last.stored_after = Len(requests[last.identifier])

\* a message the security stage rejects in the current state
Rejected(id, message) ==
    \/ CountSince(requests[id], now, MinuteWindow) >= max_per_minute
    \/ CountSince(requests[id], now, HourWindow) >= max_per_hour
    \/ AnyMatch(injection_patterns, message)

\* C9: a rate-limited or adversarial message ends the call in the security
\* stage: sessions, fault reports, dispatches and metrics are unchanged and
\* only the rate counter of the identifier may change.
C9_RejectedStopsAtSecurity ==
    [][\A i \in Ids :
        (IsCall /\ last'.session_id = i /\ Rejected(i, last'.message))
        => (/\ last'.ran = {"security"}
            /\ last'.response.intent = "security_block"
            /\ sessions' = sessions
            /\ pending_reports' = pending_reports
            /\ reports' = reports
            /\ dispatched' = dispatched
            /\ metrics' = metrics
            /\ \A j \in Ids \ {i} : requests'[j] = requests[j])]_vars

\* C9 witness: an adversarial message was rejected in a session that has
\* an open fault report
C9_Witness ==
    /\ last.op = "process_message" /\ ~last.allowed
    /\ last.reason = "blocked"
    /\ last.session_id \in DOMAIN pending_reports

\* C10: a message matching only suspicious patterns is allowed and its
\* sanitized text differs from the raw text.
C10_SuspiciousIsRedacted ==
    (last.op = "process_message"
        /\ ~AnyMatch(injection_patterns, last.message)
        /\ AnyMatch(suspicious_indicators, last.message)
        /\ last.reason \notin {"minute", "hour"})
    => (last.allowed /\ last.sanitized # last.message)

\* C11: no step of the bot lowers the stored lead score of any session; every
\* session that exists stays and keeps a lead score at least as high as before.
C11_LeadScoreNeverDecreases ==
    [][\A s \in DOMAIN sessions :
          /\ s \in DOMAIN sessions'
          /\ sessions'[s].lead_score >= sessions[s].lead_score]_vars

\* a session holding lead score 5 has just had a lower-scoring message stored
C11_Witness ==
    /\ last.op = "process_message"
    /\ last.stage = "reply"
    /\ last.response.lead_score < 5
    /\ sessions[last.session_id].lead_score = 5
    /\ Len(sessions[last.session_id].messages) >= 4

\* C12: after every call that classified the message (it ended in a reply or
\* in an escalation), the session's stored lead score is the maximum of its
\* score before the call (1 for a new session) and the lead score of the
\* ClassificationResult of this call.
C12_StoredIsMaxOfResults ==
    [][(IsCall /\ last'.stage \in {"reply", "escalation"})
       => sessions'[last'.session_id].lead_score =
              Max(IF last'.session_id \in DOMAIN sessions
                  THEN sessions[last'.session_id].lead_score ELSE 1,
                  last'.response.lead_score)]_vars

OrderedRules(intent, sentiment, conversation_turns, message) ==
    << [hit |-> \E i \in 1..Len(message) : LowerWord(message[i]) \in legal_keywords,
        reason |-> "legal_threat"],
       [hit |-> sentiment \in sentiment_escalation, reason |-> "angry_customer"],
       [hit |-> \E i \in 1..Len(message) : LowerWord(message[i]) \in manager_keywords,
        reason |-> "manager_request"],
       [hit |-> intent = "technical_issue" /\ conversation_turns > 3,
        reason |-> "technical_issue"],
       [hit |-> intent = "refund_request" /\ sentiment \in {"frustrated", "angry"},
        reason |-> "refund_dispute"],
       [hit |-> conversation_turns > max_conversation_turns, reason |-> "complex_case"],
       [hit |-> \E i \in 1..Len(message) : LowerWord(message[i]) \in billing_keywords,
        reason |-> "billing_error"],
       [hit |-> \E i \in 1..Len(message) : LowerWord(message[i]) \in contract_keywords,
        reason |-> "contractual"] >>

\* C14: should_escalate returns the reason of the first rule, in the order
\* legal keyword, escalation sentiment, manager keyword, technical issue with
\* more than 3 turns, refund with negative sentiment, turns over the maximum,
\* billing keyword, contract keyword, that matches, and None when none does;
\* the ClassificationResult's own flag plays no part.
C14_FirstRuleWins ==
    last.op = "should_escalate"
    => LET rules == OrderedRules(last.intent, last.sentiment, last.conversation_turns,
                                 last.message)
           hits == {k \in 1..Len(rules) : rules[k].hit}
       IN /\ hits = {} => last.reason = NoneVal
          /\ hits # {} => \E k \in hits : /\ \A k2 \in hits : k <= k2
                                            /\ last.reason = rules[k].reason
          /\ rules[1].hit => last.reason = "legal_threat"

\* a legal keyword in the message of an angry customer after more turns than
\* the maximum, in a message that also names the manager: legal_threat
C14_Witness ==
    /\ last.op = "should_escalate"
    /\ last.message = <<"chef", "konsumentverket">>
    /\ last.sentiment = "angry"
    /\ last.conversation_turns > max_conversation_turns
    /\ last.reason = "legal_threat"

\* C15: a call whose message is only a greeting is answered by the security
\* check, the fault report stage or the local model; the router and the
\* escalation engine are not run for it, and the call returns a reply.
C15_GreetingStopsBeforeRouter ==
    (last.op = "process_message" /\ last.message = Greeting)
    => /\ last.stage \in {"security", "fault", "fastpath"}
       /\ "router" \notin last.ran
       /\ "escalation" \notin last.ran
       /\ Len(last.response.reply) > 0

\* the greeting came second in a session that has an open fault report, and
\* the local model answered it
C15_Witness ==
    /\ last.op = "process_message"
    /\ last.message = Greeting
    /\ last.stage = "fastpath"
    /\ last.n >= 2
    /\ last.session_id \in DOMAIN pending_reports
    /\ last.response.intent = "greeting"

\* C16: every response of the local model short-circuit has escalate false
\* and action none, and its lead score is the same for every pattern of the
\* local model.
C16_FastPathNeverEscalates ==
    (last.op = "process_message" /\ last.stage = "fastpath")
    => /\ ~last.response.escalate
       /\ last.response.action = "none"
       /\ \A k \in 1..Len(local_patterns) :
              last.response.lead_score = local_patterns[k].lead_score

\* C17: the local model answers a message only when the message is nothing
\* but a simple request (of the vocabulary's texts, the bare greeting); a
\* message about available apartments, or one that also holds a manager or
\* legal keyword, goes on to the router and the escalation engine.
C17_FastPathOnlySimpleRequests ==
    /\ (last.op = "process_message" /\ last.stage = "fastpath")
       => Lower(last.sanitized) = Greeting
    /\ (last.op = "process_message" /\ last.allowed /\ last.stage # "fault"
        /\ (last.sanitized = ApartmentsText
            \/ HasKeyword(last.sanitized, legal_keywords \cup manager_keywords)))
       => {"router", "escalation"} \subseteq last.ran

\* C18: every call of process_message returns a result; none ends with an
\* exception, whatever the message, the session and the history.
C18_NeverRaises ==
    last.op = "process_message" => last.stage # "raise"

\* C19: when the generation call fails or no client is configured, the call
\* still ends with a normal reply, the reply is the rule-based fallback for
\* the message and its classification, and escalate is not set.
C19_FallbackOnFailure ==
    (last.op = "process_message" /\ last.api \in {"error", "unavailable"})
    => /\ last.stage = "reply"
       /\ ~last.response.escalate
       /\ last.response.reply # <<"(llm)">>
       /\ last.response.reply =
              get_fallback_response(last.sanitized,
                                    [intent |-> last.response.intent,
                                     sentiment |-> last.response.sentiment])

\* the generation call raised for a message no knowledge chunk matches, and
\* the default fallback reply was returned
C19_Witness ==
    /\ last.op = "process_message"
    /\ last.api = "error"
    /\ last.message = BuyText
    /\ last.stage = "reply"
    /\ last.response.reply = <<"(default)">>
    /\ ~last.response.escalate

\* C20: the lead score of every result of process_message, and so of every
\* ClassificationResult it returns, lies in 1..5.
C20_LeadScoreInRange ==
    (last.op = "process_message" /\ last.stage # "raise")
    => last.response.lead_score \in 1..5

\* C21: the intent of every result process_message returns, whichever stage
\* produced it, is a member of the router's IntentType.
C21_IntentInClosedSet ==
    (last.op = "process_message" /\ last.stage # "raise")
    => last.response.intent \in IntentType

\* C22: when the message given to the router matches the pricing patterns
\* and the user message before it, the last item of the history, matched
\* them too, the lead score of the classification is at least 3.
C22_SecondPricingMessageScoresThree ==
    (/\ last.op = "classify"
     /\ ~last.result.raised
     /\ ~last.history.is_none
     /\ Len(last.history.items) > 0
     /\ last.result.intent = "pricing_question")
    => LET previous == last.history.items[Len(last.history.items)]
       IN (~IsDict(previous)
           /\ detect_intent(Lower(previous.str)).intent = "pricing_question")
          => last.result.lead_score >= 3

\* C23: an attribute stored in a session's memory keeps its value: no later
\* call changes the value stored under a key the session already has.
C23_FirstWriteWins ==
    [][\A s \in DOMAIN sessions :
          \A key \in DOMAIN sessions[s].memory :
              /\ s \in DOMAIN sessions'
              /\ key \in DOMAIN sessions'[s].memory
              /\ sessions'[s].memory[key] = sessions[s].memory[key]]_vars

\* C24: at every point each session id has at most one report that is still
\* collecting, and it is the one pending_reports holds for the session.
C24_OneOpenReportPerSession ==
    \A s \in Ids :
        LET open == {i \in DOMAIN reports :
                        reports[i].session_id = s /\ reports[i].status = "collecting"}
        IN /\ Cardinality(open) <= 1
           /\ open = IF s \in DOMAIN pending_reports THEN {pending_reports[s]} ELSE {}

\* a second message of the session was merged into its open report, which
\* is still collecting, while the other session has an open report of its own
C24_Witness ==
    /\ last.op = "process_message"
    /\ last.allowed
    /\ ~last.fault.is_new_report
    /\ last.fault.collect_more_info
    /\ last.session_id \in DOMAIN pending_reports
    /\ reports[pending_reports[last.session_id]].status = "collecting"
    /\ \E s \in DOMAIN pending_reports : s # last.session_id
\* C25: when calls of process_message for one session overlap, the fault
\* system ends as after the calls run one after the other: every report
\* created is still open for its session or has been dispatched (none is
\* overwritten or lost), and no report is dispatched twice.
C25_NoReportLostOrOverwritten ==
    /\ \A i \in 1..Len(reports) : i \in Range(pending_reports) \/ i \in Range(dispatched)
    /\ \A j, k \in 1..Len(dispatched) : dispatched[j] = dispatched[k] => j = k

\* C26: however the RateLimiter.check calls of the workers interleave, an
\* identifier never has more than max_per_minute allowed requests inside
\* one per-minute window.
C26_MinuteCapUnderInterleaving ==
    \A i \in Ids : CountSince(requests[i], now, MinuteWindow) <= max_per_minute

\* C27: no eviction and no reset deletes a session while a process_message
\* call for its id is in flight: the session object a call obtained at its
\* start is the one stored under that id for as long as the call runs.
C27_HeldSessionIsLive ==
    \A w \in Workers : calls[w].pc = "collect" =>
        /\ ~calls[w].held.orphan
        /\ calls[w].session_id \in DOMAIN sessions

\* C28: the reply to a message that completes a fault report does not wait
\* for the notification: a call that has handed the completed report to the
\* dispatch eventually returns the closing confirmation, whether or not the
\* mail server ever answers.
C28_ReplyDoesNotWaitForDispatch ==
    \A w \in Workers :
        (calls[w].pc = "send") ~>
            (/\ calls[w].pc = "idle"
             /\ last.op = "process_message"
             /\ last.allowed
             /\ last.fault.is_complete
             /\ last.fault.response = "info_collected")

\* C29: the sweep removes a session only when it has been inactive for longer
\* than the timeout: no step removes a session for which an allowed message,
\* of whatever kind, was processed within the last session_timeout seconds.
C29_ActiveSessionIsKept ==
    [][(/\ last.op = "process_message"
        /\ last.allowed
        /\ last.session_id \in DOMAIN sessions
        /\ now - last.at <= session_timeout)
       => last.session_id \in DOMAIN sessions']_vars

\* C30: when the first message of a session is escalated, the escalation
\* packet's customer issue is that message and its trailing summary holds
\* it.
C30_FirstMessageIsTheIssue ==
    (/\ last.op = "process_message"
     /\ last.stage = "escalation"
     /\ Len(requests[last.session_id]) = 1)
    => (/\ last.packet.customer_issue = last.sanitized
        /\ \E k \in 1..Len(last.packet.messages_summary) :
              /\ last.packet.messages_summary[k].role = "user"
              /\ last.packet.messages_summary[k].content = last.sanitized)

\* the members of EscalationReason that the rule table names
EscalationReasons == {"legal_threat", "angry_customer", "manager_request", "technical_issue", "refund_dispute", "complex_case", "billing_error", "contractual"}

\* the reasons should_escalate returns over the intents, the sentiments the
\* router can give, the turn counts and the messages of the escalation inputs
ReturnedReasons == {should_escalate(i, s, l, t, m) : i \in EscIntents, s \in EscSentiments \cup {"slightly_negative"}, l \in EscLeads, t \in EscTurns, m \in EscTexts}

\* C31: an engine with the default triggers returns each of the eight
\* reasons of the rule table for some input of should_escalate; in
\* particular some call with the refund intent and a negative sentiment
\* returns refund_dispute.
C31_EveryReasonIsReturned ==
    last.op = "should_escalate"
    => /\ EscalationReasons \subseteq ReturnedReasons
       /\ \E s \in {"frustrated", "angry", "slightly_negative"}, l \in EscLeads, t \in EscTurns, m \in EscTexts :
             should_escalate("refund_request", s, l, t, m) = "refund_dispute"

\* number of pattern groups of the k-th declared category that match the text
CategoryHits(k, text) == CountMatches(category_patterns[k].patterns, Lower(text))

\* C32: detect_category returns "other" exactly when no category pattern
\* matches the text; otherwise it returns a category with the highest number
\* of matching pattern groups, and among several with that number the one
\* declared first (water, electrical, heating, security, structural,
\* appliance, noise).
C32_CategoryIsFirstBest ==
    last.op = "detect_category"
    => LET declared == 1..Len(category_patterns)
       IN /\ (last.category = "other") <=> (\A k \in declared : CategoryHits(k, last.text) = 0)
          /\ last.category # "other"
             => \E k \in declared :
                   /\ category_patterns[k].category = last.category
                   /\ CategoryHits(k, last.text) > 0
                   /\ \A k2 \in declared : CategoryHits(k2, last.text) <= CategoryHits(k, last.text)
                   /\ \A k2 \in declared : k2 < k => CategoryHits(k2, last.text) < CategoryHits(k, last.text)
          /\ [k \in declared |-> category_patterns[k].category]
                = <<"water", "electrical", "heating", "security", "structural", "appliance", "noise">>

\* an alarm and a radiator: both heating groups and both security groups
\* match, and heating, declared before security, is returned
C32_Witness ==
    /\ last.op = "detect_category"
    /\ last.text = <<"alarm", "radiator">>
    /\ CategoryHits(3, last.text) = 2
    /\ CategoryHits(4, last.text) = 2
    /\ last.category = "heating"

\* summed weight of the patterns of the k-th declared intent that match
IntentWeight(k, message) == intent_patterns[k].weight * CountMatches(intent_patterns[k].patterns, message)

\* C33: _detect_intent returns general_inquiry when no pattern matches the
\* message; otherwise it returns an intent whose summed pattern weight is
\* the highest, and among several with that weight the one declared first
\* in the intent table.
C33_IntentIsFirstBest ==
    last.op = "detect_intent"
    => LET declared == 1..Len(intent_patterns)
       IN /\ (\A k \in declared : IntentWeight(k, last.message) = 0)
             => last.result.intent = "general_inquiry"
          /\ (\E k \in declared : IntentWeight(k, last.message) > 0)
             => \E k \in declared :
                   /\ intent_patterns[k].intent = last.result.intent
                   /\ IntentWeight(k, last.message) > 0
                   /\ \A k2 \in declared : IntentWeight(k2, last.message) <= IntentWeight(k, last.message)
                   /\ \A k2 \in declared : k2 < k => IntentWeight(k2, last.message) < IntentWeight(k, last.message)

\* a bug and a refund in one message: one technical pattern and one refund
\* pattern match, and technical_issue, declared before refund_request, is
\* returned
C33_Witness ==
    /\ last.op = "detect_intent"
    /\ last.message = <<"refund", "bugg">>
    /\ IntentWeight(4, last.message) = IntentWeight(5, last.message)
    /\ IntentWeight(4, last.message) > 0
    /\ last.result.intent = "technical_issue"

\* the session has an open report whose urgency is above low
OpenUrgentReport(session_id) ==
    /\ session_id \in DOMAIN pending_reports
    /\ reports[pending_reports[session_id]].urgency \in {"medium", "high", "critical"}

\* C34: while a session has an open report of urgency medium, high or
\* critical, every allowed message of the session, whatever its text, is
\* answered as a fault report (intent fault_report, action collect_info) and
\* reaches neither the local model, nor the router, nor the escalation
\* engine; the message that completes the report is answered so too.
C34_OpenReportKeepsFaultPath ==
    [][\A session_id \in Ids :
          (/\ OpenUrgentReport(session_id)
           /\ last'.op = "process_message"
           /\ last'.n = last.n + 1
           /\ last'.session_id = session_id
           /\ last'.allowed)
          => (/\ last'.stage = "fault"
              /\ last'.response.intent = "fault_report"
              /\ last'.response.action = "collect_info"
              /\ last'.ran \cap {"fastpath", "router", "escalation"} = {}
              /\ ~last'.fault.is_new_report)]_vars

\* a greeting sent while a high report is open is answered as a fault report
\* and asks again for what is missing
C34_Witness ==
    /\ last.op = "process_message"
    /\ last.allowed
    /\ last.sanitized = Greeting
    /\ last.stage = "fault"
    /\ ~last.fault.is_new_report
    /\ ~last.fault.is_complete
    /\ reports[last.fault.report].urgency = "high"
    /\ last.response.intent = "fault_report"

\* the sequence a is a prefix of the sequence b
IsPrefix(a, b) == Len(a) <= Len(b) /\ SubSeq(b, 1, Len(a)) = a

\* C35: a follow-up message changes the open report of its session only by
\* filling the location, the email, the phone or the name where the field is
\* still empty, and by appending to the description: urgency, category,
\* report id and session are the same after the call as before, a field that
\* was filled keeps its value, and the earlier description is a prefix of the
\* new one.
C35_FollowUpOnlyFillsAndAppends ==
    [][\A session_id \in Ids :
          (/\ session_id \in DOMAIN pending_reports
           /\ last'.op = "process_message"
           /\ last'.n = last.n + 1
           /\ last'.session_id = session_id
           /\ last'.allowed)
          => LET idx == pending_reports[session_id]
                 before == reports[idx]
                 after == reports'[idx]
             IN /\ last'.fault.report = idx
                /\ after.urgency = before.urgency
                /\ after.category = before.category
                /\ after.report_id = before.report_id
                /\ after.session_id = before.session_id
                /\ before.location # <<>> => after.location = before.location
                /\ before.reporter_email # NoneVal => after.reporter_email = before.reporter_email
                /\ before.reporter_phone # NoneVal => after.reporter_phone = before.reporter_phone
                /\ before.reporter_name # NoneVal => after.reporter_name = before.reporter_name
                /\ IsPrefix(before.description, after.description)
                /\ after.location \in {before.location, extract_info(last'.sanitized).location}
                /\ after.reporter_email \in {before.reporter_email, extract_info(last'.sanitized).email}
                /\ after.reporter_phone \in {before.reporter_phone, extract_info(last'.sanitized).phone}
                /\ after.reporter_name = before.reporter_name
                /\ after.description \in {before.description, last'.sanitized,
                                          before.description \o <<Separator>> \o last'.sanitized}]_vars

\* a second phone number sent to a report that holds one: the report keeps
\* the first number and its description has grown by the message
C35_Witness ==
    /\ last.op = "process_message"
    /\ last.allowed
    /\ ~last.fault.is_new_report
    /\ last.sanitized = OtherPhoneText
    /\ reports[last.fault.report].reporter_phone = "0701234567"
    /\ reports[last.fault.report].description = PhoneText \o <<Separator>> \o OtherPhoneText

\* C36: over a series of messages handled one after the other, a fault
\* report is dispatched at most once, in the call in which it becomes
\* complete, and a report that is not complete is never dispatched; from
\* that call on the report is not the open report of any session and no
\* later message modifies it.
C36_DispatchedOnceWhenComplete ==
    [][/\ \A i, j \in 1..Len(dispatched') : i # j => dispatched'[i] # dispatched'[j]
       /\ \A k \in 1..Len(dispatched') :
             /\ is_complete(reports'[dispatched'[k]])
             /\ \A session_id \in DOMAIN pending_reports' :
                   pending_reports'[session_id] # dispatched'[k]
       /\ Len(dispatched') >= Len(dispatched)
       /\ \A k \in 1..Len(dispatched) :
             /\ dispatched'[k] = dispatched[k]
             /\ reports'[dispatched[k]] = reports[dispatched[k]]
       /\ \A idx \in 1..Len(reports') :
             (is_complete(reports'[idx]) /\ (idx > Len(reports) \/ ~is_complete(reports[idx])))
             <=> (/\ Len(dispatched') = Len(dispatched) + 1
                  /\ dispatched'[Len(dispatched')] = idx
                  /\ last'.op = "process_message"
                  /\ last'.fault.report = idx
                  /\ last'.fault.is_complete)]_vars

\* a report was dispatched in the call that made it complete, and the next
\* message of the session opened another report and left the dispatched one
\* as it was
C36_Witness ==
    /\ last.op = "process_message"
    /\ last.allowed
    /\ last.fault.is_new_report
    /\ ~last.fault.is_complete
    /\ Len(dispatched) = 1
    /\ dispatched[1] # last.fault.report
    /\ reports[dispatched[1]].session_id = last.session_id
    /\ reports[dispatched[1]].status = "complete"
    /\ pending_reports[last.session_id] = last.fault.report

\* the message log of the session, empty when the memory holds no such session
MessageLog(sess, session_id) ==
    IF session_id \in DOMAIN sess THEN sess[session_id].messages ELSE <<>>

\* C37: the message log of a session is append-only and changes only in a
\* call of process_message that runs the normal path to its end, which
\* appends exactly two entries, the user's message and then the bot's reply;
\* a call that ends as a security rejection, a fault report response, a local
\* model reply or an escalation leaves the log, the last activity time and
\* the stored lead score of the session as they were.
C37_LogGrowsOnlyOnNormalPath ==
    [][\A session_id \in Ids :
          LET before == MessageLog(sessions, session_id)
              after == MessageLog(sessions', session_id)
              call == /\ last'.op = "process_message"
                      /\ last'.n = last.n + 1
                      /\ last'.session_id = session_id
          IN /\ session_id \in DOMAIN sessions'
                => \/ after = before
                   \/ /\ call
                      /\ last'.stage = "reply"
                      /\ Len(after) = Len(before) + 2
                      /\ SubSeq(after, 1, Len(before)) = before
                      /\ after[Len(before) + 1].role = "user"
                      /\ after[Len(before) + 1].content = last'.sanitized
                      /\ after[Len(before) + 2].role = "bot"
             /\ (call /\ last'.stage = "reply")
                => (session_id \in DOMAIN sessions' /\ Len(after) = Len(before) + 2)
             /\ (call /\ last'.stage \in {"security", "fault", "fastpath", "escalation"}
                      /\ session_id \in DOMAIN sessions)
                => /\ session_id \in DOMAIN sessions'
                   /\ sessions'[session_id].messages = sessions[session_id].messages
                   /\ sessions'[session_id].last_activity = sessions[session_id].last_activity
                   /\ sessions'[session_id].lead_score = sessions[session_id].lead_score]_vars

\* an escalated message of a session that holds an answered exchange from an
\* earlier time: the two entries, the time of that exchange and the lead score
\* are still what the session holds
C37_Witness ==
    /\ last.op = "process_message"
    /\ last.stage = "escalation"
    /\ last.session_id \in DOMAIN sessions
    /\ Len(sessions[last.session_id].messages) = 2
    /\ sessions[last.session_id].messages[1].role = "user"
    /\ sessions[last.session_id].messages[2].role = "bot"
    /\ sessions[last.session_id].last_activity < last.at

\* C38: once a session stores more messages than max_conversation_turns,
\* every later message of the session that reaches the escalation engine is
\* escalated, and the number of messages the session stores does not change
\* as long as the session is not evicted or reset.
C38_LongConversationAlwaysEscalates ==
    [][\A session_id \in DOMAIN sessions :
          Len(sessions[session_id].messages) > max_conversation_turns
          => /\ (/\ last'.op = "process_message"
                 /\ last'.n = last.n + 1
                 /\ last'.session_id = session_id
                 /\ "escalation" \in last'.ran)
                => (/\ last'.stage = "escalation"
                    /\ last'.response.escalate
                    /\ last'.response.action = "escalate")
             /\ session_id \in DOMAIN sessions'
                => Len(sessions'[session_id].messages) = Len(sessions[session_id].messages)]_vars

\* a request for information, of the kind the session had answered five
\* times, is escalated once the session stores ten messages, and the session
\* still stores ten
C38_Witness ==
    /\ last.op = "process_message"
    /\ last.sanitized = InfoText
    /\ last.stage = "escalation"
    /\ last.session_id \in DOMAIN sessions
    /\ Len(sessions[last.session_id].messages) = max_conversation_turns + 2
    /\ last.packet.messages_summary # <<>>

\* C39: the metrics record of a conversation accumulates over the session:
\* from one call of process_message for a session id to the next its message
\* counters do not decrease, and a conversation marked escalated or converted
\* stays marked.
C39_MetricsAccumulate ==
    [][\A session_id \in (DOMAIN metrics) \cap (DOMAIN metrics') :
          /\ metrics'[session_id].total_messages >= metrics[session_id].total_messages
          /\ metrics'[session_id].user_messages >= metrics[session_id].user_messages
          /\ metrics'[session_id].bot_messages >= metrics[session_id].bot_messages
          /\ metrics[session_id].escalated => metrics'[session_id].escalated
          /\ metrics[session_id].converted => metrics'[session_id].converted]_vars

====
